---- MODULE Spec2Model ----
(***************************************************************************)
(* banderole: the launcher's cache protocol.                               *)
(*                                                                         *)
(* Several launcher processes carrying the same BUILD_ID share one         *)
(* per-build directory  cache_root/BUILD_ID  and one lock file             *)
(* cache_root/BUILD_ID.lock.  Two launcher templates exist in the          *)
(* repository:                                                             *)
(*   - src/src/template/src/main.rs  (the locking launcher), and           *)
(*   - src/template/src/main.rs      (the launcher that                    *)
(*     EmbeddedTemplate::new embeds: include_str!("../template/src/main.rs")*)
(*     is resolved from src/src/embedded_template.rs).                     *)
(* Every file-system call of main / is_extraction_valid /                  *)
(* extract_application / run_app is one step of the process that makes it, *)
(* so that other processes may run between any two calls.                  *)
(***************************************************************************)
EXTENDS Naturals, Sequences, FiniteSets

\* Number of launcher processes started with the same BUILD_ID.
NProcs == 2

Procs == 1..NProcs

(***************************************************************************)
(* Paths inside the per-build directory.  ".ready" is the sentinel,        *)
(* "app/old.js" a leftover that no archive contains.                       *)
(***************************************************************************)
ready_file == ".ready"

app_package_json == "app/package.json"

node_executable == "node/bin/node"

main_script == "app/index.js"

stale_file == "app/old.js"

\* Another file of the Node runtime directory; WalkDir yields the directory
\* in file-system order, so it may follow the executable in the archive.
node_license == "node/LICENSE"

\* The embedded archive: the sequence of its file entries, in archive order.
FullArchive == <<app_package_json, main_script, node_executable>>

NoNodeArchive == <<app_package_json, main_script>>

NoManifestArchive == <<main_script, node_executable>>

\* app/ first, then node/ with the executable ahead of the rest of its tree.
NodeTreeArchive == <<app_package_json, main_script, node_executable, node_license>>

Archives == {FullArchive, NoNodeArchive, NoManifestArchive, NodeTreeArchive}

AllFiles == {ready_file, app_package_json, main_script, node_executable, stale_file,
             node_license}

VARIABLES
  archive,         \* XZ_DATA / ZIP_DATA: the archive this launcher embeds
  app_dir,         \* TRUE iff cache_root/BUILD_ID exists
  files,           \* the files that exist below cache_root/BUILD_ID
  lock_file,       \* TRUE iff cache_root/BUILD_ID.lock exists
  lock_fds,        \* the processes that hold the lock file open
  lock_holders,    \* the processes whose lock_exclusive has returned and that
                   \* have not unlocked (nor closed the file) since
  pc,              \* pc[p]: the statement process p executes next
  package_exists,  \* package_exists[p]: the local of is_extraction_valid
  entry_i,         \* entry_i[p]: the loop index i of extract_application
  via,             \* via[p]: the branch of main that p took
  \* extract_application, one archive entry (both launchers)
  file_name,       \* file.name(), as the pieces between its '/' characters
  outpath,         \* the path the entry is written to, as its components
  created,         \* the files and directories the entry made, resolved
  entry_result,    \* "skipped", "written" or "failed"
  \* bundle_node_modules_comprehensive
  pnpm,            \* pnpm_dir.exists()
  node_modules,    \* node_modules[n]: what the installation holds for name n
  manifests,       \* manifests[n]: the dependency sections of n's package.json
  packages_to_bundle, \* the HashSet of the root manifest's dependency names
  seeds_left,      \* the names of packages_to_bundle the loop has not reached
  resolved,        \* resolved / resolved_packages: the HashSet of names
  stack,           \* the active calls of the resolver, outermost first
  expansions,      \* expansions[n]: how often n was inserted and expanded
  to_copy,         \* the names of resolved the copy loop has not reached
  zip,             \* the entries written to the ZipWriter, in order
  warnings,        \* the names whose copy failed with a warning
  bundle_pc,       \* "resolve", "copy", "done" or "failed"
  \* run_app (both launchers)
  template,        \* "locking" or "embedded": the launcher's source
  windows,         \* cfg!(windows)
  run_from,        \* the call of run_app in main: "cached", "recheck", "first"
  args,            \* env::args().collect(): the launcher's own arguments
  env,             \* the launcher's environment
  package_main,    \* find_main_script(&app_path)
  cmd_args,        \* cmd_args
  attempt,         \* the loop variable of lines 339-386
  child_args,      \* the arguments the runtime child was spawned with
  child_env,       \* the environment the runtime child was spawned with
  child_code,      \* status.code(): {} for None, {c} for Some(c)
  exit_code,       \* the launcher's own exit code: {} while it runs
  last_err,        \* last_err: {} for None, {n} for the error of attempt n
  run_pc,          \* "args", "spawn", "status", "exited" or "failed"
  \* resolve_output_path
  output_arg,      \* the parameter output_path: {} for None, {p} for Some(p)
  custom_name,     \* the parameter custom_name: {} for None
  host_windows,    \* Platform::current().is_windows()
  cwd,             \* cwd[s]: what exists under the name base_name + s + ext
  output_path,     \* the local output_path
  counter,         \* the local counter
  tried,           \* the values output_path has taken, in order
  out_pc,          \* "start", "loop" or "done"
  \* determine_source_directory and read_tsconfig
  manifest_main,   \* package_json["main"].as_str(): {} for None, else {pieces}
  project_fs,      \* project_fs[d]: what the project root holds under name d
  tsfiles,         \* tsfiles[f]: the JSON object of the configuration file f
  source_dir,      \* the path returned, relative to the project root
  matched_rule,    \* the return statement taken: "main", "outDir", "common",
                   \* "root"
  sel_pc,          \* "call" or "done"
  \* find_and_bundle_dependencies
  own,             \* what the project directory holds: node_modules, the
                   \* detected package manager, .pnpm, links into a parent
  ancestors,       \* ancestors[k]: the k-th parent directory, nearest first
  project_manifest, \* the dependency sections of the project's package.json
  current_path,    \* the local current_path: an index of ancestors, 0 for None
  called,          \* the bundling function that was called
  install_root,    \* the directory whose node_modules is read: 0 the project
  seeds,           \* packages_to_bundle of the function that was called
  dependencies_found, \* DependenciesResult.dependencies_found
  find_pc,         \* "start", "walk", "done"
  \* read_tsconfig, call by call
  ts_stack,        \* the active calls: the path each one reads
  ts_value,        \* the value the innermost finished call returned
  ts_pc,           \* "call", "return", "returned" or "overflow"
  \* bundle_project: the app/ part of the archive
  src_files,       \* the files below the source directory, relative to it
  separate_source, \* source_dir != project_path
  app_zip,         \* the entries of the ZipWriter: name and data
  arch_pc,         \* "source", "manifest", "done" or "failed"
  \* extract_package_name_from_pnpm
  pnpm_name,       \* the parameter, as the sequence of its characters
  extracted,       \* the value returned: {} for None
  parse_pc         \* "call" or "done"

\* The variables of the cache protocol.
launcher_vars == <<archive, app_dir, files, lock_file, lock_fds, lock_holders,
                   pc, package_exists, entry_i, via>>

\* extract_application's handling of one entry.
entry_vars == <<file_name, outpath, created, entry_result>>

\* The dependency resolver and the archive writer.
bundle_vars == <<pnpm, node_modules, manifests, packages_to_bundle, seeds_left,
                 resolved, stack, expansions, to_copy, zip, warnings, bundle_pc>>

\* run_app, from its arguments to the launcher's exit.
run_vars == <<template, windows, run_from, args, env, package_main, cmd_args,
              attempt, child_args, child_env, child_code, exit_code, last_err,
              run_pc>>

\* resolve_output_path
out_vars == <<output_arg, custom_name, host_windows, cwd, output_path,
              counter, tried, out_pc>>

\* determine_source_directory
sel_vars == <<manifest_main, project_fs, tsfiles, source_dir, matched_rule,
              sel_pc>>

\* find_and_bundle_dependencies
find_vars == <<own, ancestors, project_manifest, current_path, called,
               install_root, seeds, dependencies_found, find_pc>>

\* read_tsconfig as a sequence of calls
ts_vars == <<ts_stack, ts_value, ts_pc>>

\* The application part of the archive.
arch_vars == <<src_files, separate_source, app_zip, arch_pc>>

\* extract_package_name_from_pnpm
parse_vars == <<pnpm_name, extracted, parse_pc>>

\* The variables of the sequential parts: a launcher process never changes
\* them while it runs the cache protocol.
seq_vars == <<entry_vars, bundle_vars, run_vars, out_vars, sel_vars,
              find_vars, ts_vars, arch_vars, parse_vars>>

\* What a step of one sequential part leaves alone.
entry_frame == <<launcher_vars, bundle_vars, run_vars, out_vars, sel_vars,
                 find_vars, ts_vars, arch_vars, parse_vars>>

bundle_frame == <<launcher_vars, entry_vars, run_vars, out_vars, sel_vars,
                  find_vars, ts_vars, arch_vars, parse_vars>>

run_frame == <<launcher_vars, entry_vars, bundle_vars, out_vars, sel_vars,
               find_vars, ts_vars, arch_vars, parse_vars>>

out_frame == <<launcher_vars, entry_vars, bundle_vars, run_vars, sel_vars,
               find_vars, ts_vars, arch_vars, parse_vars>>

sel_frame == <<launcher_vars, entry_vars, bundle_vars, run_vars, out_vars,
               find_vars, ts_vars, arch_vars, parse_vars>>

find_frame == <<launcher_vars, entry_vars, bundle_vars, run_vars, out_vars,
                sel_vars, ts_vars, arch_vars, parse_vars>>

ts_frame == <<launcher_vars, entry_vars, bundle_vars, run_vars, out_vars,
              sel_vars, find_vars, arch_vars, parse_vars>>

arch_frame == <<launcher_vars, entry_vars, bundle_vars, run_vars, out_vars,
                sel_vars, find_vars, ts_vars, parse_vars>>

parse_frame == <<launcher_vars, entry_vars, bundle_vars, run_vars, out_vars,
                 sel_vars, find_vars, ts_vars, arch_vars>>

vars == <<launcher_vars, seq_vars>>

fs == <<app_dir, files>>

lockvars == <<lock_file, lock_fds, lock_holders>>

locals == <<package_exists, entry_i>>

(***************************************************************************)
(* Pure helpers.                                                           *)
(***************************************************************************)
Range(s) == {s[i] : i \in 1..Len(s)}

\* ready_file.exists()
ReadyExists(fset) == ready_file \in fset

\* app_package_json.exists()
PackageExists(fset) == app_package_json \in fset

\* get_node_executable_path(app_dir).exists(): node/bin/node, or any file
\* named "node" below node/ (node/bin/node is the only such path here).
NodeExists(fset) == node_executable \in fset

\* app_path.exists(): the directory app/ exists.
AppPathExists(fset) == \E f \in fset : f \in {app_package_json, main_script, stale_file}

\* is_extraction_valid: Ok(package_exists && node_exists)
is_extraction_valid(pkg, node) == pkg /\ node

\* The tree is valid when read in one instant.
ValidTree(fset) == is_extraction_valid(PackageExists(fset), NodeExists(fset))

ArchiveValid == ValidTree(Range(archive))

\* The complete result of one extraction plus the sentinel.
CompleteTree == Range(archive) \cup {ready_file}

Terminal == {"exited", "err_lock", "err_extract", "err_ready", "err_unlock",
             "err_run", "err_spawn", "killed"}

\* The statements of the locking launcher and of the embedded launcher.
LauncherPcs == {"start", "valid_pkg", "valid_node", "open_lock", "lock_exclusive",
                "recheck", "revalid_pkg", "revalid_node", "unlock_run",
                "extract", "remove", "mkdir", "decompress", "entries",
                "write_ready", "unlock", "run_app", "run_app_dir", "spawn"}

EmbeddedPcs == {"e_start", "e_valid_pkg", "e_valid_node", "e_mkdir", "e_entries",
                "e_write_ready", "e_run_app", "e_spawn"}

TypeOK ==
  /\ archive \in Archives
  /\ app_dir \in BOOLEAN
  /\ files \subseteq AllFiles
  /\ lock_file \in BOOLEAN
  /\ lock_fds \subseteq Procs
  /\ lock_holders \subseteq Procs
  /\ pc \in [Procs -> LauncherPcs \cup EmbeddedPcs \cup Terminal]
  /\ package_exists \in [Procs -> BOOLEAN]
  /\ entry_i \in [Procs -> 0..Len(archive)]
  /\ via \in [Procs -> {"none", "fast", "recheck", "extract"}]

\* No archive entry is being handled.
EntryIdle ==
  /\ file_name = <<>>
  /\ outpath = <<>>
  /\ created = {}
  /\ entry_result = "idle"

\* The bundler is not running.
BundleIdle ==
  /\ pnpm = FALSE
  /\ node_modules = <<>>
  /\ manifests = <<>>
  /\ packages_to_bundle = {}
  /\ seeds_left = {}
  /\ resolved = {}
  /\ stack = <<>>
  /\ expansions = <<>>
  /\ to_copy = {}
  /\ zip = <<>>
  /\ warnings = {}
  /\ bundle_pc = "idle"

\* run_app has not been called.
RunIdle ==
  /\ template = "locking"
  /\ windows = FALSE
  /\ run_from = "none"
  /\ args = <<>>
  /\ env = <<>>
  /\ package_main = ""
  /\ cmd_args = <<>>
  /\ attempt = 0
  /\ child_args = <<>>
  /\ child_env = <<>>
  /\ child_code = {}
  /\ exit_code = {}
  /\ last_err = {}
  /\ run_pc = "idle"

\* resolve_output_path has not been called.
OutIdle ==
  /\ output_arg = {}
  /\ custom_name = {}
  /\ host_windows = FALSE
  /\ cwd = <<>>
  /\ output_path = <<>>
  /\ counter = 0
  /\ tried = <<>>
  /\ out_pc = "idle"

\* determine_source_directory has not been called.
SelIdle ==
  /\ manifest_main = {}
  /\ project_fs = <<>>
  /\ tsfiles = <<>>
  /\ source_dir = <<>>
  /\ matched_rule = "none"
  /\ sel_pc = "idle"

\* The sequential parts are not running.
FindIdle ==
  /\ own = <<>>
  /\ ancestors = <<>>
  /\ project_manifest = <<>>
  /\ current_path = 0
  /\ called = "none"
  /\ install_root = 0
  /\ seeds = {}
  /\ dependencies_found = FALSE
  /\ find_pc = "idle"

TsIdle ==
  /\ ts_stack = <<>>
  /\ ts_value = <<>>
  /\ ts_pc = "idle"

ArchIdle ==
  /\ src_files = {}
  /\ separate_source = FALSE
  /\ app_zip = <<>>
  /\ arch_pc = "idle"

ParseIdle ==
  /\ pnpm_name = <<>>
  /\ extracted = {}
  /\ parse_pc = "idle"

\* The parts of the bundler that have their own specification further down.
LateIdle == FindIdle /\ TsIdle /\ ArchIdle /\ ParseIdle

SeqIdle ==
  EntryIdle /\ BundleIdle /\ RunIdle /\ OutIdle /\ SelIdle /\ LateIdle

\* The cache is empty and no launcher has run yet.
Init ==
  /\ archive \in Archives
  /\ app_dir = FALSE
  /\ files = {}
  /\ lock_file = FALSE
  /\ lock_fds = {}
  /\ lock_holders = {}
  /\ pc = [p \in Procs |-> "start"]
  /\ package_exists = [p \in Procs |-> FALSE]
  /\ entry_i = [p \in Procs |-> 0]
  /\ via = [p \in Procs |-> "none"]
  /\ SeqIdle

\* No launcher runs the cache protocol: the state the sequential parts are
\* studied in.
LauncherIdle ==
  /\ archive = FullArchive
  /\ app_dir = FALSE
  /\ files = {}
  /\ lock_file = FALSE
  /\ lock_fds = {}
  /\ lock_holders = {}
  /\ pc = [p \in Procs |-> "start"]
  /\ package_exists = [p \in Procs |-> FALSE]
  /\ entry_i = [p \in Procs |-> 0]
  /\ via = [p \in Procs |-> "none"]

(***************************************************************************)
(* What the operating system does when a process ends (return from main,   *)
(* std::process::exit, or a signal): its descriptor of the lock file is    *)
(* closed, and with it the lock it held.                                   *)
(***************************************************************************)
ProcessEnds(p) ==
  /\ lock_fds' = lock_fds \ {p}
  /\ lock_holders' = lock_holders \ {p}
  /\ lock_file' = lock_file

(***************************************************************************)
(* The locking launcher: src/src/template/src/main.rs                      *)
(***************************************************************************)

\* main opening the lock file before the first check.
CheckReady_OpensLock(p) ==
  /\ pc[p] = "start"
  /\ lock_file' = TRUE
  /\ lock_fds' = lock_fds \cup {p}
  /\ pc' = [pc EXCEPT ![p] = IF ReadyExists(files) THEN "valid_pkg" ELSE "open_lock"]
  /\ UNCHANGED <<seq_vars, archive, fs, lock_holders, locals, via>>

\* main, line 25, left operand: ready_file.exists()
CheckReady(p) ==
  /\ pc[p] = "start"
  /\ pc' = [pc EXCEPT ![p] = IF ReadyExists(files) THEN "valid_pkg" ELSE "open_lock"]
  /\ UNCHANGED <<seq_vars, archive, fs, lockvars, locals, via>>

\* is_extraction_valid, line 133: let package_exists = app_package_json.exists()
ValidPkg(p) ==
  /\ pc[p] = "valid_pkg"
  /\ package_exists' = [package_exists EXCEPT ![p] = PackageExists(files)]
  /\ pc' = [pc EXCEPT ![p] = "valid_node"]
  /\ UNCHANGED <<seq_vars, archive, fs, lockvars, entry_i, via>>

\* is_extraction_valid, lines 134-158, and the branch of main, lines 25-27
ValidNode(p) ==
  /\ pc[p] = "valid_node"
  /\ LET ok == is_extraction_valid(package_exists[p], NodeExists(files))
     IN  /\ pc' = [pc EXCEPT ![p] = IF ok THEN "run_app" ELSE "open_lock"]
         /\ via' = [via EXCEPT ![p] = IF ok THEN "fast" ELSE via[p]]
  /\ package_exists' = [package_exists EXCEPT ![p] = FALSE]
  /\ UNCHANGED <<seq_vars, archive, fs, lockvars, entry_i>>

\* main, lines 30-35: OpenOptions::new().create(true).write(true).open(..)
OpenLock(p) ==
  /\ pc[p] = "open_lock"
  /\ lock_file' = TRUE
  /\ lock_fds' = lock_fds \cup {p}
  /\ pc' = [pc EXCEPT ![p] = "lock_exclusive"]
  /\ UNCHANGED <<seq_vars, archive, fs, lock_holders, locals, via>>

\* A lock that is granted while another process holds it (a shared lock).
LockAvailable_Shared(p) == p \in lock_fds

\* fs2 lock_exclusive blocks until no other descriptor holds the lock.
LockAvailable(p) == lock_holders \subseteq {p}

\* main, line 38: lock_file.lock_exclusive()
LockExclusive(p) ==
  /\ pc[p] = "lock_exclusive"
  /\ LockAvailable(p)
  /\ lock_holders' = lock_holders \cup {p}
  /\ pc' = [pc EXCEPT ![p] = "recheck"]
  /\ UNCHANGED <<seq_vars, archive, fs, lock_file, lock_fds, locals, via>>

\* extract_application is entered: main, line 48
EnterExtract(p) ==
  /\ pc' = [pc EXCEPT ![p] = "extract"]
  /\ via' = [via EXCEPT ![p] = "extract"]

\* main, line 41, left operand: ready_file.exists()
Recheck(p) ==
  /\ pc[p] = "recheck"
  /\ IF ReadyExists(files)
       THEN pc' = [pc EXCEPT ![p] = "revalid_pkg"] /\ via' = via
       ELSE EnterExtract(p)
  /\ UNCHANGED <<seq_vars, archive, fs, lockvars, locals>>

\* is_extraction_valid, line 133, called from main, line 41
RevalidPkg(p) ==
  /\ pc[p] = "revalid_pkg"
  /\ package_exists' = [package_exists EXCEPT ![p] = PackageExists(files)]
  /\ pc' = [pc EXCEPT ![p] = "revalid_node"]
  /\ UNCHANGED <<seq_vars, archive, fs, lockvars, entry_i, via>>

\* main without the second check: the lock holder always extracts.
RevalidNode_NoDoubleCheck(p) ==
  /\ pc[p] = "revalid_node"
  /\ EnterExtract(p)
  /\ package_exists' = [package_exists EXCEPT ![p] = FALSE]
  /\ UNCHANGED <<seq_vars, archive, fs, lockvars, entry_i>>

\* is_extraction_valid, lines 134-158, and the branch of main, lines 41-45
RevalidNode(p) ==
  /\ pc[p] = "revalid_node"
  /\ IF is_extraction_valid(package_exists[p], NodeExists(files))
       THEN /\ pc' = [pc EXCEPT ![p] = "unlock_run"]
            /\ via' = [via EXCEPT ![p] = "recheck"]
       ELSE EnterExtract(p)
  /\ package_exists' = [package_exists EXCEPT ![p] = FALSE]
  /\ UNCHANGED <<seq_vars, archive, fs, lockvars, entry_i>>

\* main going to run_app with the lock still held.
UnlockRun_KeepsLock(p) ==
  /\ pc[p] = "unlock_run"
  /\ pc' = [pc EXCEPT ![p] = "run_app"]
  /\ UNCHANGED <<seq_vars, archive, fs, lockvars, locals, via>>

\* main, line 43: lock_file.unlock().ok()
UnlockRun(p) ==
  /\ pc[p] = "unlock_run"
  /\ lock_holders' = lock_holders \ {p}
  /\ pc' = [pc EXCEPT ![p] = "run_app"]
  /\ UNCHANGED <<seq_vars, archive, fs, lock_file, lock_fds, locals, via>>

\* extract_application without lines 163-165: an existing directory is kept.
ExtractStart_KeepsOldTree(p) ==
  /\ pc[p] = "extract"
  /\ pc' = [pc EXCEPT ![p] = "mkdir"]
  /\ UNCHANGED <<seq_vars, archive, fs, lockvars, locals, via>>

\* extract_application, line 163: if app_dir.exists()
ExtractStart(p) ==
  /\ pc[p] = "extract"
  /\ pc' = [pc EXCEPT ![p] = IF app_dir THEN "remove" ELSE "mkdir"]
  /\ UNCHANGED <<seq_vars, archive, fs, lockvars, locals, via>>

\* extract_application, line 164: fs::remove_dir_all unlinks the entries of
\* the directory one by one, in the order the directory lists them.
RemoveEntry(p) ==
  /\ pc[p] = "remove"
  /\ \E f \in files : files' = files \ {f}
  /\ UNCHANGED <<seq_vars, archive, app_dir, lockvars, pc, locals, via>>

\* extract_application, line 164: remove_dir_all removes the emptied directory.
RemoveDir(p) ==
  /\ pc[p] = "remove"
  /\ files = {}
  /\ app_dir' = FALSE
  /\ pc' = [pc EXCEPT ![p] = "mkdir"]
  /\ UNCHANGED <<seq_vars, archive, files, lockvars, locals, via>>

\* extract_application, line 168: fs::create_dir_all(app_dir)
Mkdir(p) ==
  /\ pc[p] = "mkdir"
  /\ app_dir' = TRUE
  /\ pc' = [pc EXCEPT ![p] = "decompress"]
  /\ UNCHANGED <<seq_vars, archive, files, lockvars, locals, via>>

\* extract_application, lines 171-178: xz_decompress, ZipArchive::new
Decompress(p) ==
  /\ pc[p] = "decompress"
  /\ IF Len(archive) = 0
       THEN pc' = [pc EXCEPT ![p] = "write_ready"] /\ entry_i' = entry_i
       ELSE /\ pc' = [pc EXCEPT ![p] = "entries"]
            /\ entry_i' = [entry_i EXCEPT ![p] = 1]
  /\ UNCHANGED <<seq_vars, archive, fs, lockvars, package_exists, via>>

\* extract_application, lines 180-260: one iteration of the loop writes the
\* file of entry i (create_dir_all of its parent, File::create, io::copy).
ExtractEntry(p) ==
  /\ pc[p] = "entries"
  /\ LET i == entry_i[p]
     IN  /\ files' = files \cup {archive[i]}
         /\ app_dir' = TRUE
         /\ IF i = Len(archive)
              THEN /\ pc' = [pc EXCEPT ![p] = "write_ready"]
                   /\ entry_i' = [entry_i EXCEPT ![p] = 0]
              ELSE /\ pc' = pc
                   /\ entry_i' = [entry_i EXCEPT ![p] = i + 1]
  /\ UNCHANGED <<seq_vars, archive, lockvars, package_exists, via>>

\* main, line 52: fs::write(&ready_file, "ready")
WriteReady(p) ==
  /\ pc[p] = "write_ready"
  /\ files' = files \cup {ready_file}
  /\ pc' = [pc EXCEPT ![p] = "unlock"]
  /\ UNCHANGED <<seq_vars, archive, app_dir, lockvars, locals, via>>

\* main going from the sentinel write to run_app with the lock still held.
Unlock_KeepsLock(p) ==
  /\ pc[p] = "unlock"
  /\ pc' = [pc EXCEPT ![p] = "run_app"]
  /\ UNCHANGED <<seq_vars, archive, fs, lockvars, locals, via>>

\* main, line 56: lock_file.unlock()
Unlock(p) ==
  /\ pc[p] = "unlock"
  /\ lock_holders' = lock_holders \ {p}
  /\ pc' = [pc EXCEPT ![p] = "run_app"]
  /\ UNCHANGED <<seq_vars, archive, fs, lock_file, lock_fds, locals, via>>

\* run_app, lines 267-297: if !node_executable.exists() { return Err(..) }
RunAppNode(p) ==
  /\ pc[p] = "run_app"
  /\ IF NodeExists(files)
       THEN pc' = [pc EXCEPT ![p] = "run_app_dir"] /\ UNCHANGED lockvars
       ELSE pc' = [pc EXCEPT ![p] = "err_run"] /\ ProcessEnds(p)
  /\ UNCHANGED <<seq_vars, archive, fs, locals, via>>

\* run_app, lines 318-327: if !app_path.exists() { return Err(..) }
RunAppDir(p) ==
  /\ pc[p] = "run_app_dir"
  /\ IF AppPathExists(files)
       THEN pc' = [pc EXCEPT ![p] = "spawn"] /\ UNCHANGED lockvars
       ELSE pc' = [pc EXCEPT ![p] = "err_run"] /\ ProcessEnds(p)
  /\ UNCHANGED <<seq_vars, archive, fs, locals, via>>

\* run_app, lines 330-393: the runtime is spawned on the entry script and the
\* launcher exits with the child's status.
Spawn(p) ==
  /\ pc[p] = "spawn"
  /\ pc' = [pc EXCEPT ![p] = "exited"]
  /\ ProcessEnds(p)
  /\ UNCHANGED <<seq_vars, archive, fs, locals, via>>

(***************************************************************************)
(* Error returns of main (the ? operator) and signals.  A launcher that    *)
(* returns Err from main ends; nothing runs between the failing call and   *)
(* the end of the process, so the per-build directory stays as the failing *)
(* call left it.                                                           *)
(***************************************************************************)

\* main, lines 35 and 38: the lock file cannot be created or locked.
LockFail(p) ==
  /\ pc[p] \in {"open_lock", "lock_exclusive"}
  /\ pc' = [pc EXCEPT ![p] = "err_lock"]
  /\ ProcessEnds(p)
  /\ UNCHANGED <<seq_vars, archive, fs, locals, via>>

\* main, lines 48-49: extract_application returns Err (remove_dir_all,
\* create_dir_all, xz_decompress, ZipArchive::new, by_index fail).
ExtractFail(p) ==
  /\ pc[p] \in {"remove", "mkdir", "decompress", "entries"}
  /\ pc' = [pc EXCEPT ![p] = "err_extract"]
  /\ entry_i' = [entry_i EXCEPT ![p] = 0]
  /\ ProcessEnds(p)
  /\ UNCHANGED <<seq_vars, archive, fs, package_exists, via>>

\* extract_application, lines 241-256: io::copy, sync_all or set_permissions
\* fail after File::create has created the file of entry i.
ExtractFailMidFile(p) ==
  /\ pc[p] = "entries"
  /\ files' = files \cup {archive[entry_i[p]]}
  /\ app_dir' = TRUE
  /\ pc' = [pc EXCEPT ![p] = "err_extract"]
  /\ entry_i' = [entry_i EXCEPT ![p] = 0]
  /\ ProcessEnds(p)
  /\ UNCHANGED <<seq_vars, archive, package_exists, via>>

\* main, lines 52-53: fs::write fails, before or after it created the file.
ReadyFail(p) ==
  /\ pc[p] = "write_ready"
  /\ files' \in {files, files \cup {ready_file}}
  /\ pc' = [pc EXCEPT ![p] = "err_ready"]
  /\ ProcessEnds(p)
  /\ UNCHANGED <<seq_vars, archive, app_dir, locals, via>>

\* main, line 56: lock_file.unlock() fails.
UnlockFail(p) ==
  /\ pc[p] = "unlock"
  /\ pc' = [pc EXCEPT ![p] = "err_unlock"]
  /\ ProcessEnds(p)
  /\ UNCHANGED <<seq_vars, archive, fs, locals, via>>

\* run_app, lines 326-391: set_current_dir, find_main_script or every spawn
\* attempt fails.
SpawnFail(p) ==
  /\ pc[p] = "spawn"
  /\ pc' = [pc EXCEPT ![p] = "err_spawn"]
  /\ ProcessEnds(p)
  /\ UNCHANGED <<seq_vars, archive, fs, locals, via>>

\* A signal ends the launcher between two of its calls.
Kill(p) ==
  /\ pc[p] \notin Terminal
  /\ pc[p] \notin {"start", "e_start"}
  /\ pc' = [pc EXCEPT ![p] = "killed"]
  /\ package_exists' = [package_exists EXCEPT ![p] = FALSE]
  /\ entry_i' = [entry_i EXCEPT ![p] = 0]
  /\ ProcessEnds(p)
  /\ UNCHANGED <<seq_vars, archive, fs, via>>

\* The steps the launcher takes when no call fails and no signal arrives.
Launcher(p) ==
  \/ CheckReady(p) \/ ValidPkg(p) \/ ValidNode(p)
  \/ OpenLock(p) \/ LockExclusive(p)
  \/ Recheck(p) \/ RevalidPkg(p) \/ RevalidNode(p) \/ UnlockRun(p)
  \/ ExtractStart(p) \/ RemoveEntry(p) \/ RemoveDir(p) \/ Mkdir(p)
  \/ Decompress(p) \/ ExtractEntry(p) \/ WriteReady(p) \/ Unlock(p)
  \/ RunAppNode(p) \/ RunAppDir(p) \/ Spawn(p)

Fault(p) ==
  \/ LockFail(p) \/ ExtractFail(p) \/ ExtractFailMidFile(p) \/ ReadyFail(p)
  \/ UnlockFail(p) \/ SpawnFail(p) \/ Kill(p)

Next == \E p \in Procs : Launcher(p) \/ Fault(p)

\* Concurrent launches of the locking launcher against an empty cache.
Spec == Init /\ [][Next]_vars

\* The operating system schedules every launcher that can take a step.
FairSpec == Spec /\ \A p \in Procs : WF_vars(Launcher(p))

(***************************************************************************)
(* The launcher that EmbeddedTemplate::new embeds: src/template/src/main.rs *)
(***************************************************************************)

\* main, line 22, left operand: ready_file.exists()
ECheckReady(p) ==
  /\ pc[p] = "e_start"
  /\ pc' = [pc EXCEPT ![p] = IF ReadyExists(files) THEN "e_valid_pkg" ELSE "e_mkdir"]
  /\ via' = [via EXCEPT ![p] = IF ReadyExists(files) THEN via[p] ELSE "extract"]
  /\ UNCHANGED <<seq_vars, archive, fs, lockvars, locals>>

\* is_extraction_valid, line 65, left operand: app_package_json.exists()
EValidPkg(p) ==
  /\ pc[p] = "e_valid_pkg"
  /\ pc' = [pc EXCEPT ![p] = IF PackageExists(files) THEN "e_valid_node" ELSE "e_mkdir"]
  /\ via' = [via EXCEPT ![p] = IF PackageExists(files) THEN via[p] ELSE "extract"]
  /\ UNCHANGED <<seq_vars, archive, fs, lockvars, locals>>

\* is_extraction_valid, line 65, right operand, and main, lines 22-24
EValidNode(p) ==
  /\ pc[p] = "e_valid_node"
  /\ pc' = [pc EXCEPT ![p] = IF NodeExists(files) THEN "e_run_app" ELSE "e_mkdir"]
  /\ via' = [via EXCEPT ![p] = IF NodeExists(files) THEN "fast" ELSE "extract"]
  /\ UNCHANGED <<seq_vars, archive, fs, lockvars, locals>>

\* extract_application, lines 70-74: create_dir_all(app_dir), ZipArchive::new
EMkdir(p) ==
  /\ pc[p] = "e_mkdir"
  /\ app_dir' = TRUE
  /\ IF Len(archive) = 0
       THEN pc' = [pc EXCEPT ![p] = "e_write_ready"] /\ entry_i' = entry_i
       ELSE /\ pc' = [pc EXCEPT ![p] = "e_entries"]
            /\ entry_i' = [entry_i EXCEPT ![p] = 1]
  /\ UNCHANGED <<seq_vars, archive, files, lockvars, package_exists, via>>

\* extract_application, lines 76-102: one iteration of the loop
EExtractEntry(p) ==
  /\ pc[p] = "e_entries"
  /\ LET i == entry_i[p]
     IN  /\ files' = files \cup {archive[i]}
         /\ app_dir' = TRUE
         /\ IF i = Len(archive)
              THEN /\ pc' = [pc EXCEPT ![p] = "e_write_ready"]
                   /\ entry_i' = [entry_i EXCEPT ![p] = 0]
              ELSE /\ pc' = pc
                   /\ entry_i' = [entry_i EXCEPT ![p] = i + 1]
  /\ UNCHANGED <<seq_vars, archive, lockvars, package_exists, via>>

\* main, line 30: fs::write(&ready_file, "ready")
EWriteReady(p) ==
  /\ pc[p] = "e_write_ready"
  /\ files' = files \cup {ready_file}
  /\ pc' = [pc EXCEPT ![p] = "e_run_app"]
  /\ UNCHANGED <<seq_vars, archive, app_dir, lockvars, locals, via>>

\* run_app, line 116: env::set_current_dir(&app_path)
ERunAppDir(p) ==
  /\ pc[p] = "e_run_app"
  /\ pc' = [pc EXCEPT ![p] = IF AppPathExists(files) THEN "e_spawn" ELSE "err_run"]
  /\ UNCHANGED <<seq_vars, archive, fs, lockvars, locals, via>>

\* run_app, lines 126-134: Command::new(&node_executable) .. status(), exit
ESpawn(p) ==
  /\ pc[p] = "e_spawn"
  /\ pc' = [pc EXCEPT ![p] = IF NodeExists(files) THEN "exited" ELSE "err_spawn"]
  /\ UNCHANGED <<seq_vars, archive, fs, lockvars, locals, via>>

\* main, line 27: extract_application returns Err.
EExtractFail(p) ==
  /\ pc[p] \in {"e_mkdir", "e_entries"}
  /\ pc' = [pc EXCEPT ![p] = "err_extract"]
  /\ entry_i' = [entry_i EXCEPT ![p] = 0]
  /\ UNCHANGED <<seq_vars, archive, fs, lockvars, package_exists, via>>

\* main, line 30: fs::write fails, before or after it created the file.
EReadyFail(p) ==
  /\ pc[p] = "e_write_ready"
  /\ files' \in {files, files \cup {ready_file}}
  /\ pc' = [pc EXCEPT ![p] = "err_ready"]
  /\ UNCHANGED <<seq_vars, archive, app_dir, lockvars, locals, via>>

\* run_app, line 132: the spawn fails.
ESpawnFail(p) ==
  /\ pc[p] = "e_spawn"
  /\ pc' = [pc EXCEPT ![p] = "err_spawn"]
  /\ UNCHANGED <<seq_vars, archive, fs, lockvars, locals, via>>

EmbeddedLauncher(p) ==
  \/ ECheckReady(p) \/ EValidPkg(p) \/ EValidNode(p)
  \/ EMkdir(p) \/ EExtractEntry(p) \/ EWriteReady(p)
  \/ ERunAppDir(p) \/ ESpawn(p)

EmbeddedFault(p) ==
  \/ EExtractFail(p) \/ EReadyFail(p) \/ ESpawnFail(p) \/ Kill(p)

InitEmbedded ==
  /\ archive \in Archives
  /\ app_dir = FALSE
  /\ files = {}
  /\ lock_file = FALSE
  /\ lock_fds = {}
  /\ lock_holders = {}
  /\ pc = [p \in Procs |-> "e_start"]
  /\ package_exists = [p \in Procs |-> FALSE]
  /\ entry_i = [p \in Procs |-> 0]
  /\ via = [p \in Procs |-> "none"]
  /\ SeqIdle

NextEmbedded == \E p \in Procs : EmbeddedLauncher(p) \/ EmbeddedFault(p)

\* Concurrent launches of the embedded launcher against an empty cache.
SpecEmbedded == InitEmbedded /\ [][NextEmbedded]_vars

(***************************************************************************)
(* The locking launcher started on a cache that is not intact: the         *)
(* per-build directory is missing, partially extracted, or holds leftovers,*)
(* and the sentinel is absent or validation fails.                         *)
(***************************************************************************)
InitRepair ==
  /\ archive \in Archives
  /\ app_dir \in BOOLEAN
  /\ files \in SUBSET AllFiles
  /\ ~app_dir => files = {}
  /\ ~(ReadyExists(files) /\ ValidTree(files))
  /\ lock_file \in BOOLEAN
  /\ lock_fds = {}
  /\ lock_holders = {}
  /\ pc = [p \in Procs |-> "start"]
  /\ package_exists = [p \in Procs |-> FALSE]
  /\ entry_i = [p \in Procs |-> 0]
  /\ via = [p \in Procs |-> "none"]
  /\ SeqIdle

SpecRepair == InitRepair /\ [][Next]_vars

FairSpecRepair == SpecRepair /\ \A p \in Procs : WF_vars(Launcher(p))

(***************************************************************************)
(* Properties.                                                             *)
(***************************************************************************)

\* The statements of the critical section from the entry of
\* extract_application up to and including the sentinel write.
ExtractPcs == {"extract", "remove", "mkdir", "decompress", "entries", "write_ready"}

Extractors == {p \in Procs : via[p] = "extract"}

\* C1: in the locking launcher at most one process at a time is inside
\* extract_application; a process is there only after its lock_exclusive has
\* returned, and it keeps the lock until it has written the sentinel.
C1_ExclusiveExtraction ==
  /\ \A p \in Procs : pc[p] \in ExtractPcs => p \in lock_holders
  /\ Cardinality({p \in Procs : pc[p] \in ExtractPcs}) <= 1
  /\ Cardinality(lock_holders) <= 1

\* One process writes archive entries while another is blocked in lock_exclusive.
C1_Witness ==
  \E p, q \in Procs :
    /\ p # q
    /\ pc[p] = "entries" /\ entry_i[p] = 2
    /\ pc[q] = "lock_exclusive" /\ q \in lock_fds

\* The ends of a launcher that an I/O error or a signal caused.
FaultPcs == {"err_lock", "err_extract", "err_ready", "err_unlock", "err_spawn", "killed"}

NoFault == \A p \in Procs : pc[p] \notin FaultPcs

AllDone == \A p \in Procs : pc[p] \in Terminal

C2_OneExtraction ==
  (ArchiveValid /\ NoFault) =>
    /\ Cardinality(Extractors) <= 1
    /\ AllDone =>
         /\ Cardinality(Extractors) = 1
         /\ \A p \in Procs : pc[p] = "exited"
         /\ app_dir
         /\ files = CompleteTree

\* C2: all processes start against an empty cache; every launcher ends, and
\* when the archive is valid and no call failed and no signal arrived, exactly
\* one process extracted, every process spawned the runtime and exited with
\* the child's status, and the per-build directory holds exactly the archive's
\* files and the sentinel.
C2_ConcurrentFirstLaunch == []C2_OneExtraction /\ <>[]AllDone

\* Both launchers are done; one extracted and the other waited for the lock
\* and found the sentinel.
C2_Witness ==
  /\ AllDone /\ NoFault /\ ArchiveValid
  /\ \E p, q \in Procs : via[p] = "extract" /\ via[q] = "recheck"
  /\ files = CompleteTree

\* The statements that create or write below the per-build directory, in
\* either launcher.
WritePcs == {"remove", "mkdir", "decompress", "entries", "write_ready",
             "e_mkdir", "e_entries", "e_write_ready"}

\* C3: in every launcher template, a process creates the per-build directory
\* and writes archive entries and the sentinel only while it holds the
\* exclusive lock on cache_root/BUILD_ID.lock.
C3_WritesOnlyUnderLock ==
  \A p \in Procs : pc[p] \in WritePcs => p \in lock_holders

\* The statements of run_app and the ends a launcher reaches from them.
RunPcs == {"run_app", "run_app_dir", "spawn", "exited", "err_run", "err_spawn", "killed"}

\* C4: a launch whose first check finds the sentinel and a valid tree goes to
\* run_app at once; none of its steps opens or locks the lock file or changes
\* the per-build directory or the sentinel.
C4_FastPathNoop ==
  [][\A p \in Procs :
       /\ (pc[p] = "valid_node" /\ pc'[p] \notin {"valid_node", "killed"}
             /\ package_exists[p] /\ NodeExists(files))
            => (pc'[p] = "run_app" /\ via'[p] = "fast")
       /\ (pc'[p] # pc[p] /\ (pc[p] \in {"start", "valid_pkg", "valid_node"}
                               \/ via'[p] = "fast"))
            => /\ UNCHANGED <<app_dir, files, lock_file, lock_fds, lock_holders>>
               /\ p \notin lock_fds
       /\ (pc'[p] # pc[p] /\ via'[p] = "fast") => pc'[p] \in RunPcs
    ]_vars

\* A launcher has run the application from the intact cache that another
\* launcher extracted, and the cache is as that launcher left it.
C4_Witness ==
  \E p, q \in Procs :
    /\ via[p] = "fast" /\ pc[p] = "exited"
    /\ via[q] = "extract" /\ pc[q] = "exited"
    /\ files = CompleteTree /\ lock_fds = {} /\ lock_holders = {}

C6_FailedExtractionCleansUp ==
  [][\A p \in Procs :
       (pc[p] \notin Terminal /\ pc'[p] = "err_extract")
         => (~app_dir' /\ files' = {})
    ]_vars

\* C7: the sentinel is written only onto a tree that passes validation
\* (app/package.json and the runtime executable exist).
C7_SentinelOnlyAfterValidation ==
  [][\A p \in Procs :
       (pc[p] = "write_ready" /\ pc'[p] # pc[p]
          /\ ~ReadyExists(files) /\ ReadyExists(files'))
         => ValidTree(files)
    ]_vars

\* C8: in every reachable state the sentinel exists iff app/package.json and
\* the runtime executable both exist.
C8_SentinelIffValid == ReadyExists(files) <=> ValidTree(files)

\* The ends of a launcher that returned Err from main.
ErrPcs == {"err_lock", "err_extract", "err_ready", "err_unlock", "err_run", "err_spawn"}

\* C9: when a signal ends a launcher between the entry of extract_application
\* and the sentinel write, the sentinel is absent and the lock is free
\* afterwards; and a launcher that ends with an error never leaves the
\* sentinel beside a tree that lacks files of the archive.
C9_InterruptLeavesNoSentinel ==
  [][\A p \in Procs :
       /\ (pc[p] \in ExtractPcs /\ pc'[p] = "killed")
            => (~ReadyExists(files') /\ p \notin lock_holders')
       /\ (pc[p] \notin Terminal /\ pc'[p] \in ErrPcs /\ ReadyExists(files'))
            => Range(archive) \subseteq files'
    ]_vars

\* No launcher but p has started.
Uncontended(p) == \A q \in Procs \ {p} : pc[q] = "start"

C10_Repaired ==
  \A p \in Procs :
    (Uncontended(p) /\ pc[p] \notin FaultPcs) =>
      /\ pc[p] \in {"unlock", "run_app", "run_app_dir", "spawn", "exited", "err_run"}
           => (via[p] = "extract" /\ app_dir /\ files = CompleteTree)
      /\ pc[p] = "err_run" => ~NodeExists(Range(archive))

\* C10: started alone on a cache whose sentinel is absent or whose validation
\* fails, a launcher ends, and unless a call fails or a signal arrives it
\* removes what exists, extracts the whole archive, writes the sentinel and
\* runs the entry script (run_app fails only when the archive holds no runtime).
C10_RepairsBrokenCache ==
  []C10_Repaired /\ \A p \in Procs : <>(pc[p] \in Terminal)

\* A launcher started alone has replaced the broken tree and run the
\* application; the leftover file is gone.
C10_Witness ==
  \E p \in Procs :
    /\ Uncontended(p) /\ ArchiveValid
    /\ pc[p] = "exited" /\ via[p] = "extract"
    /\ files = CompleteTree /\ stale_file \notin files

(***************************************************************************)
(* C11.  The statements between lock_exclusive (line 38) and the two       *)
(* unlock calls (lines 43 and 56).                                         *)
(***************************************************************************)
CriticalPcs == {"recheck", "revalid_pkg", "revalid_node", "unlock_run",
                "extract", "remove", "mkdir", "decompress", "entries",
                "write_ready", "unlock"}

C11_ReleasedOutside ==
  \A p \in Procs : p \in lock_holders => pc[p] \in CriticalPcs

C11_Acquires(p) ==
  (pc[p] = "lock_exclusive")
     ~> (p \in lock_holders \/ pc[p] \in {"err_lock", "killed"})

MaxPieces == 3

PieceSet == {"", ".", "..", "app"}

EntryNames == UNION {[1..n -> PieceSet] : n \in 1..MaxPieces}

\* main, lines 19-20: app_dir = cache_dir.join(BUILD_ID)
app_dir_path == <<"cache", "BUILD_ID">>

\* The directories that exist before the entry is handled.
ExistingDirs == {SubSeq(app_dir_path, 1, k) : k \in 0..Len(app_dir_path)}

NonEmptyPiece(s) == s # ""

NotCurDir(s) == s # "."

\* file_name.ends_with('/')
EndsWithSlash(name) == Len(name) >= 2 /\ name[Len(name)] = ""

\* Path::is_absolute of the name, as Path::join tests it
StartsWithSlash(name) == Len(name) >= 2 /\ name[1] = ""

RECURSIVE TrimEndSlashes(_)
\* file_name.trim_end_matches('/')
TrimEndSlashes(name) ==
  IF EndsWithSlash(name)
    THEN TrimEndSlashes(SubSeq(name, 1, Len(name) - 1))
    ELSE name

\* clean_file_name.split('/').filter(|s| !s.is_empty())
path_components(name) == SelectSeq(name, NonEmptyPiece)

\* Path::components: "." is dropped, ".." is kept.
Components(path) == SelectSeq(path, NotCurDir)

IsPrefix(base, path) ==
  Len(base) <= Len(path) /\ SubSeq(path, 1, Len(base)) = base

\* Path::starts_with: a comparison of components, without resolving "..".
PathStartsWith(path, base) == IsPrefix(Components(base), Components(path))

RECURSIVE ResolveFrom(_, _)
\* What the operating system makes of a path: "." stays, ".." goes to the
\* parent (the root is its own parent).
ResolveFrom(seen, rest) ==
  IF rest = <<>> THEN seen
  ELSE LET c == Head(rest)
       IN  IF c = "." THEN ResolveFrom(seen, Tail(rest))
           ELSE IF c = ".."
             THEN ResolveFrom(IF seen = <<>> THEN <<>>
                              ELSE SubSeq(seen, 1, Len(seen) - 1), Tail(rest))
             ELSE ResolveFrom(Append(seen, c), Tail(rest))

Resolve(path) == ResolveFrom(<<>>, path)

\* Path::parent
Parent(path) == IF path = <<>> THEN <<>> ELSE SubSeq(path, 1, Len(path) - 1)

\* fs::create_dir_all(path): the directories it makes.
DirsMade(path) ==
  {Resolve(SubSeq(path, 1, k)) : k \in 0..Len(path)} \ ExistingDirs

\* The else branch of lines 235-259 (locking) and 84-101 (embedded): the
\* parent directories are made, then File::create, which fails on a directory.
WriteFile(out) ==
  LET made == DirsMade(Parent(out))
      target == Resolve(out)
  IN  IF target \in ExistingDirs \cup made
        THEN /\ created' = made
             /\ entry_result' = "failed"
        ELSE /\ created' = made \cup {target}
             /\ entry_result' = "written"

WriteDir(out) ==
  /\ created' = DirsMade(out)
  /\ entry_result' = "written"

SkipEntry ==
  /\ created' = {}
  /\ entry_result' = "skipped"
  /\ outpath' = <<>>

\* The locking launcher, src/src/template/src/main.rs lines 184-259.
ExtractOne ==
  /\ entry_result = "entry"
  /\ LET is_directory == EndsWithSlash(file_name)
         clean_file_name == IF is_directory THEN TrimEndSlashes(file_name)
                                            ELSE file_name
         comps == path_components(clean_file_name)
         out == app_dir_path \o comps
     IN  IF \/ file_name = <<"">>
            \/ is_directory /\ path_components(file_name) = <<>>
            \/ clean_file_name = <<"">>
            \/ comps = <<>>
            \/ ~PathStartsWith(out, app_dir_path)
           THEN SkipEntry
           ELSE /\ outpath' = out
                /\ IF is_directory THEN WriteDir(out) ELSE WriteFile(out)
  /\ UNCHANGED <<entry_frame, file_name>>

\* The embedded launcher, src/template/src/main.rs lines 76-101:
\* app_dir.join(file.name()), where an absolute name replaces app_dir.
EExtractOne ==
  /\ entry_result = "entry"
  /\ LET out == IF StartsWithSlash(file_name)
                  THEN path_components(file_name)
                  ELSE app_dir_path \o path_components(file_name)
     IN  /\ outpath' = out
         /\ IF EndsWithSlash(file_name) THEN WriteDir(out) ELSE WriteFile(out)
  /\ UNCHANGED <<entry_frame, file_name>>

\* One entry of the embedded archive, with any name.
InitEntry ==
  /\ LauncherIdle
  /\ BundleIdle
  /\ RunIdle
  /\ OutIdle
  /\ SelIdle
  /\ LateIdle
  /\ file_name \in EntryNames
  /\ outpath = <<>>
  /\ created = {}
  /\ entry_result = "entry"

NextEntry == ExtractOne \/ EExtractOne

SpecEntry == InitEntry /\ [][NextEntry]_vars

\* C12: whatever the entry's name, every file or directory the launcher
\* makes for it lies inside the per-build directory.
C12_CreatedInsidePerBuildDir ==
  \A c \in created : IsPrefix(app_dir_path, c)

(***************************************************************************)
(* bundle_node_modules_comprehensive: the resolver                         *)
(* (resolve_workspace_dependencies for a flat node_modules,                *)
(* resolve_package_dependencies when node_modules/.pnpm exists) and the    *)
(* copy loop (copy_workspace_package, copy_pnpm_package_comprehensive).    *)
(*                                                                         *)
(* A package name is the sequence of the pieces between its '/'            *)
(* characters, as an archive entry's name is.  "../../x" is a name a       *)
(* manifest may carry; node_modules/../../x is a directory with a          *)
(* manifest outside node_modules.                                          *)
(***************************************************************************)

\* The dependency edges of all manifests together, at most.
MaxEdges == 2

\* bundler.rs, lines 477 and 1844: if depth > 20 { return Ok(()) }
DepthCeiling == 20

PkgA == <<"a">>

PkgB == <<"b">>

EscapingName == <<"..", "..", "x">>

\* The names that manifests mention.
Names == {PkgA, PkgB, EscapingName}

\* The packages whose manifests and installation vary.
Packages == {PkgA, PkgB}

\* "dependencies", and "peer" for peerDependencies and optionalDependencies,
\* which lines 512-540 and 1888-1912 handle by the same code.
Sections == {"dependencies", "peer"}

Edges == Packages \X Sections \X Names

Graphs == {g \in SUBSET Edges : Cardinality(g) <= MaxEdges}

\* The manifest sections of package n in graph g.
ManifestOf(g, n) ==
  [dependencies |-> {d \in Names : <<n, "dependencies", d>> \in g},
   peer |-> {d \in Names : <<n, "peer", d>> \in g}]

\* What node_modules holds for a name: nothing, a real directory
\* node_modules/NAME, a symbolic link node_modules/NAME to the real directory,
\* or (pnpm) only .pnpm/NAME@VERSION/node_modules/NAME.  "dangling" is a
\* symbolic link node_modules/NAME with a relative target that does not
\* exist; under pnpm the lookup of lines 552-591 treats it as absent.
FlatKinds == {"absent", "dir", "link", "dangling"}

PnpmKinds == {"absent", "dir", "link", "store"}

\* The files of a package's real source tree, relative to its directory.
PackageTree == << <<"package.json">>, <<"index.js">> >>

\* package_path.exists(), top_level_package.exists()
TopLevelExists(n) == node_modules[n] \in {"dir", "link"}

\* resolve_workspace_dependencies, lines 1856-1872: package_json_path.exists()
\* find_package_json_content, lines 552-591
ManifestFound(n) ==
  IF pnpm THEN node_modules[n] \in {"dir", "link", "store"}
          ELSE TopLevelExists(n)

\* The resolver without the tests of lines 1890 and 1904 and of lines
\* 514 and 530: every peer and optional dependency is followed.
DepInstalled_Always(n) == TRUE

\* dep_path.exists(), lines 1890 and 1904; package_exists_in_pnpm, lines 596-615
DepInstalled(n) ==
  IF pnpm THEN node_modules[n] \in {"dir", "link", "store"}
          ELSE TopLevelExists(n)

\* resolve_workspace_dependencies, lines 1857-1863: package_path.is_symlink()
\* and the target's canonicalize() returns Err, which `?` hands to the caller,
\* and every caller's `?` to its own, up to bundle_project.
CanonicalizeFails(n) == ~pnpm /\ node_modules[n] = "dangling"

\* The frame of a call that reads n's manifest.
Frame(n) == [name |-> n,
             dependencies |-> manifests[n].dependencies,
             peer |-> manifests[n].peer]

\* The resolver without lines 482-484 and 1849-1851: a resolved name is
\* expanded again.
Call_NoVisitedCheck(n, depth, rest) ==
  IF depth > DepthCeiling
    THEN /\ stack' = rest
         /\ UNCHANGED <<resolved, expansions, bundle_pc>>
    ELSE /\ resolved' = resolved \cup {n}
         /\ expansions' = [expansions EXCEPT ![n] = @ + 1]
         /\ IF CanonicalizeFails(n)
              THEN /\ stack' = <<>>
                   /\ bundle_pc' = "failed"
              ELSE /\ stack' = IF ManifestFound(n) THEN Append(rest, Frame(n))
                                                   ELSE rest
                   /\ bundle_pc' = bundle_pc

\* resolve_workspace_dependencies / resolve_package_dependencies called on n
\* at the given depth, with rest the calls that stay active.
Call(n, depth, rest) ==
  IF depth > DepthCeiling \/ n \in resolved
    THEN /\ stack' = rest
         /\ UNCHANGED <<resolved, expansions, bundle_pc>>
    ELSE /\ resolved' = resolved \cup {n}
         /\ expansions' = [expansions EXCEPT ![n] = @ + 1]
         /\ IF CanonicalizeFails(n)
              THEN /\ stack' = <<>>
                   /\ bundle_pc' = "failed"
              ELSE /\ stack' = IF ManifestFound(n) THEN Append(rest, Frame(n))
                                                   ELSE rest
                   /\ bundle_pc' = bundle_pc

\* The for loops of lines 764-772 and 784-791 over packages_to_bundle (a
\* HashSet: any order), each calling the resolver at depth 0.
ResolveSeed ==
  /\ bundle_pc = "resolve"
  /\ stack = <<>>
  /\ \E n \in seeds_left :
        /\ seeds_left' = seeds_left \ {n}
        /\ Call(n, 0, <<>>)
  /\ UNCHANGED <<bundle_frame, pnpm, node_modules, manifests,
                 packages_to_bundle, to_copy, zip, warnings>>

\* The innermost active call goes on: the next key of "dependencies"
\* (lines 498-507, 1877-1881), then the next key of the peer and optional
\* sections if it is installed (lines 510-540, 1884-1912), then the return.
ResolveDep ==
  /\ bundle_pc = "resolve"
  /\ stack # <<>>
  /\ LET k == Len(stack)
         top == stack[k]
     IN  IF top.dependencies # {}
           THEN \E d \in top.dependencies :
                   Call(d, k, [stack EXCEPT ![k].dependencies = @ \ {d}])
         ELSE IF top.peer # {}
           THEN \E d \in top.peer :
                   LET rest == [stack EXCEPT ![k].peer = @ \ {d}]
                   IN  IF DepInstalled(d)
                         THEN Call(d, k, rest)
                         ELSE /\ stack' = rest
                              /\ UNCHANGED <<resolved, expansions, bundle_pc>>
         ELSE /\ stack' = SubSeq(stack, 1, k - 1)
              /\ UNCHANGED <<resolved, expansions, bundle_pc>>
  /\ UNCHANGED <<bundle_frame, pnpm, node_modules, manifests,
                 packages_to_bundle, seeds_left, to_copy, zip, warnings>>

\* Path::new("app/node_modules").join(package_name): an absolute name
\* replaces the base.
JoinPath(base, name) == IF StartsWithSlash(name) THEN name ELSE base \o name

\* lines 748 and 788: zip.add_directory("app/node_modules/", opts)
AddDirectory ==
  /\ bundle_pc = "resolve"
  /\ stack = <<>>
  /\ seeds_left = {}
  /\ zip' = Append(zip, <<"app", "node_modules", "">>)
  /\ to_copy' = resolved
  /\ bundle_pc' = "copy"
  /\ UNCHANGED <<bundle_frame, pnpm, node_modules, manifests,
                 packages_to_bundle, seeds_left, resolved, stack, expansions, warnings>>

\* add_dir_to_zip_no_follow_skip_parents, lines 1691-1741: one entry
\* dest_dir.join(rel_path) for every file of the tree, and none for its root.
TreeEntries(dest_path) ==
  [i \in 1..Len(PackageTree) |-> JoinPath(dest_path, PackageTree[i])]

\* copy_workspace_package that takes a symbolic link for a missing package.
copy_workspace_package_NoFollow(n) ==
  IF node_modules[n] = "dir"
    THEN /\ zip' = zip \o TreeEntries(JoinPath(<<"app", "node_modules">>, n))
         /\ warnings' = warnings
    ELSE /\ zip' = zip
         /\ warnings' = warnings \cup {n}

\* copy_workspace_package, lines 1808-1834: the real directory behind
\* node_modules/NAME is archived under app/node_modules/NAME, or the call
\* fails and the loop of lines 791-795 prints a warning.
copy_workspace_package(n) ==
  IF TopLevelExists(n)
    THEN /\ zip' = zip \o TreeEntries(JoinPath(<<"app", "node_modules">>, n))
         /\ warnings' = warnings
    ELSE /\ zip' = zip
         /\ warnings' = warnings \cup {n}

\* copy_pnpm_package_comprehensive, lines 652-701: the top-level entry if it
\* exists, else the first matching directory of .pnpm, else nothing.
copy_pnpm_package_comprehensive(n) ==
  /\ zip' = IF TopLevelExists(n) \/ node_modules[n] = "store"
              THEN zip \o TreeEntries(JoinPath(<<"app", "node_modules">>, n))
              ELSE zip
  /\ warnings' = warnings

\* The copy loops of lines 751-761 and 791-795 over resolved_packages.
CopyPackage ==
  /\ bundle_pc = "copy"
  /\ \E n \in to_copy :
        /\ to_copy' = to_copy \ {n}
        /\ IF pnpm THEN copy_pnpm_package_comprehensive(n)
                   ELSE copy_workspace_package(n)
  /\ UNCHANGED <<bundle_frame, pnpm, node_modules, manifests,
                 packages_to_bundle, seeds_left, resolved, stack, expansions, bundle_pc>>

\* The loop is over; lines 802-819 add .bin and the metadata files.
FinishBundle ==
  /\ bundle_pc = "copy"
  /\ to_copy = {}
  /\ bundle_pc' = "done"
  /\ UNCHANGED <<bundle_frame, pnpm, node_modules, manifests,
                 packages_to_bundle, seeds_left, resolved, stack, expansions, to_copy,
                 zip, warnings>>

\* A project whose root manifest names any of the names, over any
\* installation and any manifests of the packages.
InitBundle ==
  /\ LauncherIdle
  /\ EntryIdle
  /\ RunIdle
  /\ OutIdle
  /\ SelIdle
  /\ LateIdle
  /\ pnpm \in BOOLEAN
  /\ node_modules \in [Names -> PnpmKinds \cup FlatKinds]
  /\ \A n \in Names : pnpm => node_modules[n] \in PnpmKinds
  /\ node_modules[EscapingName] = "dir"
  /\ \A n \in Names : ~pnpm => node_modules[n] \in FlatKinds
  /\ \E g \in Graphs :
        manifests = [n \in Names |-> ManifestOf(g, n)]
  /\ packages_to_bundle \in SUBSET Names
  /\ seeds_left = packages_to_bundle
  /\ resolved = {}
  /\ stack = <<>>
  /\ expansions = [n \in Names |-> 0]
  /\ to_copy = {}
  /\ zip = <<>>
  /\ warnings = {}
  /\ bundle_pc = "resolve"

NextBundle ==
  ResolveSeed \/ ResolveDep \/ AddDirectory \/ CopyPackage \/ FinishBundle

SpecBundle == InitBundle /\ [][NextBundle]_vars

\* The bundler is a single thread that keeps running.
FairSpecBundle == SpecBundle /\ WF_vars(NextBundle)

RECURSIVE EscapesFrom(_, _)
\* Whether a relative path, read from a directory depth levels below a
\* root, leaves that root: ".." above the root does.
EscapesFrom(depth, rest) ==
  IF rest = <<>> THEN FALSE
  ELSE LET c == Head(rest)
       IN  IF c \in {"", "."} THEN EscapesFrom(depth, Tail(rest))
           ELSE IF c = ".."
             THEN depth = 0 \/ EscapesFrom(depth - 1, Tail(rest))
             ELSE EscapesFrom(depth + 1, Tail(rest))

\* C13: every entry written to the archive has a path under app/ that stays
\* under app/ after normalisation, whatever names the manifests carry.
C13_EntriesStayUnderRoot ==
  \A i \in 1..Len(zip) :
     /\ zip[i][1] = "app"
     /\ ~EscapesFrom(0, Tail(zip[i]))

\* An installed name of the resolved set: the lookup of the layout finds
\* its manifest.
InstalledResolved == {n \in resolved : ManifestFound(n)}

\* The number of entries of the archive with the given path.
Copies(path) == Cardinality({i \in 1..Len(zip) : zip[i] = path})

C20_ExpandedOnce == \A n \in Names : expansions[n] <= 1

C20_DepthBounded == Len(stack) <= Cardinality(resolved)

\* C20: on every dependency graph, cycles and self-dependencies included,
\* the resolvers return; no name is expanded twice, and the depth of the
\* recursion stays within the number of resolved names, so the ceiling of 20
\* is not what ends it.  A resolver returns Ok, and the bundler goes on to
\* its end, or it returns Err and the build stops there.
C20_ResolversTerminate ==
  /\ []C20_ExpandedOnce
  /\ []C20_DepthBounded
  /\ <>(bundle_pc \in {"done", "failed"})

\* The resolver has returned on a cycle a -> b -> a and on a package that
\* depends on itself.
C20_Witness ==
  /\ bundle_pc = "done"
  /\ \/ /\ PkgB \in manifests[PkgA].dependencies
        /\ PkgA \in manifests[PkgB].dependencies
        /\ resolved = {PkgA, PkgB}
     \/ /\ PkgA \in manifests[PkgA].dependencies
        /\ PkgA \in resolved
  /\ \A n \in resolved : ManifestFound(n) /\ expansions[n] = 1

\* C25: a name whose package directory or manifest cannot be located never
\* aborts the build: the resolver returns Ok, the name contributes no further
\* dependencies, a package that cannot be copied is reported as a warning,
\* and every other resolved package is archived.  Violated by a dangling
\* symbolic link in a flat node_modules: canonicalize() fails and the error
\* reaches bundle_project.
C25_MissingPackageIsSkipped ==
  /\ bundle_pc # "failed"
  /\ bundle_pc = "done" =>
        /\ \A n \in resolved \ warnings :
              ManifestFound(n) =>
                 Copies(<<"app", "node_modules">> \o n \o <<"package.json">>) = 1
        /\ \A n \in warnings : ~ManifestFound(n)

\* The part of C25 that holds: a name that is simply absent is skipped, its
\* copy gives a warning, and the other packages are archived.
C25_AbsentPackageIsSkipped ==
  bundle_pc = "done" =>
     /\ \A n \in resolved \ warnings :
           ManifestFound(n) =>
              Copies(<<"app", "node_modules">> \o n \o <<"package.json">>) = 1
     /\ \A n \in warnings : ~ManifestFound(n)

(***************************************************************************)
(* run_app: the runtime child is spawned on the entry script and the       *)
(* launcher exits with its status.  main calls run_app(&app_dir,           *)
(* &args[1..]) from the cached path (line 26), after the second check      *)
(* (line 44) and after an extraction (line 59).                            *)
(***************************************************************************)

\* The most arguments a launcher is given after argument 0.
MaxArgs == 2

ArgSet == {"--port", "8080"}

ArgLists == UNION {[1..n -> ArgSet] : n \in 0..MaxArgs}

\* PATH, as the pieces between its separators; <<"">> is the empty value.
PathValues == {<<"">>, <<"/usr/bin">>}

Environments == [PATH : PathValues, NODE_ENV : {"", "production"}]

\* The exit codes a runtime child is observed with.
ExitCodes == {0, 1, 2, 255}

\* node_executable.parent(), lines 341-344
node_bin_dir == "node/bin"

\* line 337: let max_attempts: u32 = 8
max_attempts == 8

\* line 380: if attempt >= 2 { break; }
unix_attempts == 2

\* line 393: status.code().unwrap_or(1)
code_default == 1

\* &args[1..] with argument 0 left in.
args_from_1_WithArg0(a) == a

\* main, lines 26, 44 and 59: &args[1..]
args_from_1(a) == SubSeq(a, 2, Len(a))

\* Option::unwrap_or that forgets the value.
unwrap_or_Default(opt, d) == d

\* Option::unwrap_or, an Option being the set of its values.
unwrap_or(opt, d) == IF opt = {} THEN d ELSE CHOOSE c \in opt : TRUE

\* lines 347-354: cmd.env("PATH", node_bin_dir + sep + PATH) on the inherited
\* environment; the embedded launcher sets nothing.
ChildEnv ==
  IF template = "locking"
    THEN [env EXCEPT !.PATH = <<node_bin_dir>> \o @]
    ELSE env

\* lines 333-334: vec![main_script] extended by args
BuildCmdArgs ==
  /\ run_pc = "args"
  /\ cmd_args' = <<package_main>> \o args_from_1(args)
  /\ attempt' = 1
  /\ run_pc' = "spawn"
  /\ UNCHANGED <<run_frame, template, windows, run_from, args, env,
                 package_main, child_args, child_env, child_code, exit_code,
                 last_err>>

\* lines 355-364 (embedded: 126-132): Command::status() returns Ok(s); the
\* child ran with cmd_args and ended with a code or without one.
SpawnOk ==
  /\ run_pc = "spawn"
  /\ child_args' = cmd_args
  /\ child_env' = ChildEnv
  /\ child_code' \in {{}} \cup {{c} : c \in ExitCodes}
  /\ run_pc' = "status"
  /\ UNCHANGED <<run_frame, template, windows, run_from, args, env,
                 package_main, cmd_args, attempt, exit_code, last_err>>

\* The loop of lines 339-386 without the break of lines 379-384: a host that
\* is not Windows tries max_attempts times too.
SpawnErr_NoUnixBreak ==
  /\ run_pc = "spawn"
  /\ LET last == \/ template = "embedded"
                 \/ attempt >= max_attempts
     IN  IF last
           THEN run_pc' = "failed" /\ attempt' = attempt
           ELSE run_pc' = "spawn" /\ attempt' = attempt + 1
  /\ last_err' = {attempt}
  /\ UNCHANGED <<run_frame, template, windows, run_from, args, env,
                 package_main, cmd_args, child_args, child_env, child_code,
                 exit_code>>

\* lines 365-385: Command::status() returns Err; the locking launcher tries
\* again, up to max_attempts times on Windows and twice elsewhere; the
\* embedded launcher returns the error at once (line 132).
SpawnErr ==
  /\ run_pc = "spawn"
  /\ LET last == \/ template = "embedded"
                 \/ attempt >= max_attempts
                 \/ ~windows /\ attempt >= unix_attempts
     IN  IF last
           THEN run_pc' = "failed" /\ attempt' = attempt
           ELSE run_pc' = "spawn" /\ attempt' = attempt + 1
  /\ last_err' = {attempt}
  /\ UNCHANGED <<run_frame, template, windows, run_from, args, env,
                 package_main, cmd_args, child_args, child_env, child_code,
                 exit_code>>

\* line 393 (embedded: 134): std::process::exit(status.code().unwrap_or(1))
ExitWithStatus ==
  /\ run_pc = "status"
  /\ exit_code' = {unwrap_or(child_code, code_default)}
  /\ run_pc' = "exited"
  /\ UNCHANGED <<run_frame, template, windows, run_from, args, env,
                 package_main, cmd_args, attempt, child_args, child_env,
                 child_code, last_err>>

\* run_app is called by either launcher, on any of its paths, with any
\* arguments and environment.
InitRun ==
  /\ LauncherIdle
  /\ EntryIdle
  /\ BundleIdle
  /\ OutIdle
  /\ SelIdle
  /\ LateIdle
  /\ template \in {"locking", "embedded"}
  /\ windows \in BOOLEAN
  /\ run_from \in {"cached", "recheck", "first"}
  /\ template = "embedded" => run_from # "recheck"
  /\ args \in {<<"./app">> \o rest : rest \in ArgLists}
  /\ env \in Environments
  /\ package_main \in {"index.js", "server.js"}
  /\ cmd_args = <<>>
  /\ attempt = 0
  /\ child_args = <<>>
  /\ child_env = <<>>
  /\ child_code = {}
  /\ exit_code = {}
  /\ last_err = {}
  /\ run_pc = "args"

NextRun == BuildCmdArgs \/ SpawnOk \/ SpawnErr \/ ExitWithStatus

SpecRun == InitRun /\ [][NextRun]_vars

\* C15: a launcher that exits after its runtime child exits with the child's
\* code, and with 1 when the child ended without a code.
C15_ExitCodeIsChildCode ==
  run_pc = "exited" =>
     exit_code = (IF child_code = {} THEN {1} ELSE child_code)

\* The launcher has exited after a child that ended without a code.
C15_Witness ==
  /\ run_pc = "exited"
  /\ child_code = {}
  /\ exit_code = {1}

\* Every variable of the launcher's environment reaches the child; PATH
\* alone may be longer, with the launcher's value at its end.
C16_EnvInherited ==
  /\ DOMAIN child_env = DOMAIN env
  /\ child_env.NODE_ENV = env.NODE_ENV
  /\ LET n == Len(child_env.PATH) - Len(env.PATH)
     IN  n >= 0 /\ SubSeq(child_env.PATH, n + 1, Len(child_env.PATH)) = env.PATH

\* C16: on every path of main the child's arguments are the entry script
\* followed by the launcher's arguments after argument 0, in order, and the
\* child has the launcher's environment.
C16_ArgsPassedThrough ==
  run_pc \in {"status", "exited"} =>
     /\ child_args = <<package_main>> \o Tail(args)
     /\ C16_EnvInherited

\* A first launch and a cached launch with two different arguments.
C16_Witness ==
  /\ run_pc = "status"
  /\ run_from \in {"first", "cached"}
  /\ Len(args) = 3
  /\ args[2] # args[3]
  /\ child_args = <<"index.js", args[2], args[3]>>

\* The number of the attempt after which the loop of lines 339-386 gives up.
LastAttempt ==
  IF template = "embedded" THEN 1
  ELSE IF windows THEN max_attempts ELSE unix_attempts

C24_AttemptsBounded ==
  /\ attempt <= max_attempts
  /\ ~windows => attempt <= unix_attempts

C24_FailureIsLastError ==
  run_pc = "failed" =>
     /\ attempt = LastAttempt
     /\ last_err = {attempt}
     /\ child_code = {}
     /\ exit_code = {}

C24_StopsAtFirstSuccess ==
  run_pc \in {"status", "exited"} =>
     /\ attempt' = attempt
     /\ run_pc' \in {"status", "exited"}
     /\ run_pc' = "exited" => exit_code' = {unwrap_or(child_code, code_default)}

\* C24: run_app spawns the runtime at most max_attempts (8) times, and at
\* most twice on a host that is not Windows; after the first spawn that
\* succeeds there is no other attempt and the launcher exits with that
\* child's status; when every attempt fails, run_app returns the error of
\* the last attempt and no child status becomes the exit code.
C24_BoundedRetries ==
  /\ []C24_AttemptsBounded
  /\ []C24_FailureIsLastError
  /\ [][C24_StopsAtFirstSuccess]_vars

\* On Windows the eighth attempt has failed after seven failures.
C24_Witness ==
  /\ run_pc = "failed"
  /\ template = "locking"
  /\ windows
  /\ attempt = max_attempts
  /\ last_err = {max_attempts}

(***************************************************************************)
(* resolve_output_path, bundler.rs lines 1122-1159.  A path is             *)
(* format!("{base_name}{suffix}{ext}"), kept as its three parts.           *)
(***************************************************************************)

\* The largest N for which NAME-bundle-N may exist already.
MaxNumbered == 2

NoSuffix == <<>>

BundleSuffix == <<"-bundle">>

NumberedSuffix(n) == <<"-bundle-", n>>

\* The names that may exist in the current directory before the call.
Suffixes == {NoSuffix, BundleSuffix} \cup {NumberedSuffix(n) : n \in 1..MaxNumbered}

\* The manifest's name
app_name == "my-app"

\* line 1136: custom_name.unwrap_or(app_name)
base_name == unwrap_or(custom_name, app_name)

\* lines 1131-1135
ext == IF host_windows THEN ".exe" ELSE ""

\* PathBuf::from(format!("{base_name}{suffix}{ext}"))
Format(suffix) == [base |-> base_name, suffix |-> suffix, ext |-> ext]

KindOf(path) ==
  IF path.base = base_name /\ path.ext = ext /\ path.suffix \in DOMAIN cwd
    THEN cwd[path.suffix]
    ELSE "none"

\* Path::exists
Exists(path) == KindOf(path) # "none"

\* is_dir that never holds: a directory is taken for a file.
IsDir_Never(path) == FALSE

\* Path::is_dir
IsDir(path) == KindOf(path) = "dir"

\* lines 1127-1130: an explicit output path is returned as it is
ReturnExplicit ==
  /\ out_pc = "start"
  /\ output_arg # {}
  /\ output_path' = CHOOSE p \in output_arg : TRUE
  /\ out_pc' = "done"
  /\ UNCHANGED <<out_frame, output_arg, custom_name, host_windows, cwd,
                 counter, tried>>

\* lines 1131-1140: the default name and counter = 1
StartSearch ==
  /\ out_pc = "start"
  /\ output_arg = {}
  /\ output_path' = Format(NoSuffix)
  /\ tried' = <<Format(NoSuffix)>>
  /\ counter' = 1
  /\ out_pc' = "loop"
  /\ UNCHANGED <<out_frame, output_arg, custom_name, host_windows, cwd>>

\* lines 1141-1156: the test of the while loop and one run of its body
LoopIteration ==
  /\ out_pc = "loop"
  /\ IF ~Exists(output_path)
       THEN /\ out_pc' = "done"
            /\ UNCHANGED <<output_path, counter, tried>>
       ELSE LET dir == IsDir(output_path)
                p1 == IF dir THEN Format(BundleSuffix) ELSE output_path
                t1 == IF dir THEN Append(tried, p1) ELSE tried
            IN  IF dir /\ ~Exists(p1)
                  THEN /\ output_path' = p1
                       /\ tried' = t1
                       /\ counter' = counter
                       /\ out_pc' = "done"
                  ELSE /\ output_path' = Format(NumberedSuffix(counter))
                       /\ tried' = Append(t1, Format(NumberedSuffix(counter)))
                       /\ counter' = counter + 1
                       /\ out_pc' = "loop"
  /\ UNCHANGED <<out_frame, output_arg, custom_name, host_windows, cwd>>

\* Any call: with or without an explicit path and a custom name, on either
\* host, over any files and directories with the candidate names.
InitOut ==
  /\ LauncherIdle
  /\ EntryIdle
  /\ BundleIdle
  /\ RunIdle
  /\ SelIdle
  /\ LateIdle
  /\ output_arg \in {{}, {[base |-> "out/app", suffix |-> NoSuffix, ext |-> ""]}}
  /\ custom_name \in {{}, {"tool"}}
  /\ host_windows \in BOOLEAN
  /\ cwd \in [Suffixes -> {"none", "file", "dir"}]
  /\ output_path = <<>>
  /\ counter = 0
  /\ tried = <<>>
  /\ out_pc = "start"

NextOut == ReturnExplicit \/ StartSearch \/ LoopIteration

SpecOut == InitOut /\ [][NextOut]_vars

\* The bundler is a single thread that keeps running.
FairSpecOut == SpecOut /\ WF_vars(NextOut)

\* No explicit path, and the default name exists.
Collides == output_arg = {} /\ out_pc # "start" /\ cwd[NoSuffix] # "none"

C17_ResultIsFree == out_pc = "done" /\ Collides => ~Exists(output_path)

\* C17 as stated: after a collision with a file or a directory the result
\* does not exist, and the names are tried in the order NAME, NAME-bundle,
\* NAME-bundle-1, NAME-bundle-2, ...
C17_BundleThenNumbered ==
  /\ C17_ResultIsFree
  /\ Collides =>
       \A k \in 1..Len(tried) :
          tried[k].suffix = (IF k = 1 THEN NoSuffix
                             ELSE IF k = 2 THEN BundleSuffix
                             ELSE NumberedSuffix(k - 2))

IsNumbered(path) == Len(path.suffix) = 2

C17_AmendedOrder ==
  Collides =>
     /\ LET nums == SelectSeq(tried, IsNumbered)
        IN  \A k \in 1..Len(nums) : nums[k].suffix = NumberedSuffix(k)
     /\ Len(tried) >= 2 =>
          tried[2].suffix = (IF cwd[NoSuffix] = "dir" THEN BundleSuffix
                             ELSE NumberedSuffix(1))

\* C17, amended: after a collision the search ends with a name that does not
\* exist; NAME-bundle-N is tried for N = 1, 2, ... in increasing order;
\* NAME-bundle is tried first when the default name is a directory, and
\* NAME-bundle-1 is tried first when it is a file.
C17_ResolvesCollision ==
  /\ []C17_ResultIsFree
  /\ []C17_AmendedOrder
  /\ <>(out_pc = "done")

\* The default name is a file and NAME-bundle-1 exists: NAME-bundle-2 is
\* returned although NAME-bundle does not exist.
C17_Witness ==
  /\ out_pc = "done"
  /\ Collides
  /\ cwd[NoSuffix] = "file"
  /\ cwd[BundleSuffix] = "none"
  /\ output_path.suffix = NumberedSuffix(2)

(***************************************************************************)
(* determine_source_directory and read_tsconfig, bundler.rs lines          *)
(* 1013-1105.  Paths are relative to the project root, as the sequence of  *)
(* their components; a JSON object is a function from its keys.            *)
(***************************************************************************)

\* The most entries the project root holds besides its manifest and
\* configuration files.
MaxEntries == 2

\* The longest chain of configuration files linked by "extends".
MaxChain == 2

\* lines 1025 and 1044: ["dist", "build", "lib", "out"]
CommonDirs == <<"dist", "build", "lib", "out">>

\* The names under the project root: the four above and one more.
DirNames == Range(CommonDirs) \cup {"compiled"}

\* The name of the project root's own directory.
project_name == "ts-app"

\* The files a directory may hold, as <<stem, extension>>.
DirContents == {{}, {<<"index", "js">>}, {<<"index", "cjs">>},
                {<<"package", "json">>}, {<<"index", "ts">>}}

Absent == [kind |-> "absent", files |-> {}]

FsEntries == {Absent, [kind |-> "file", files |-> {}]}
               \cup {[kind |-> "dir", files |-> c] : c \in DirContents}

ProjectTrees ==
  {t \in [DirNames -> FsEntries] :
      Cardinality({d \in DirNames : t[d] # Absent}) <= MaxEntries}

\* The values of "main" in the root manifest.
MainValues == {{}, {<<"index.js">>}, {<<"dist", "index.js">>},
               {<<"lib", "index.js">>}, {<<"compiled", "index.js">>}}

\* The values of "compilerOptions": {} when the key is missing.
CompilerOptionsValues == {{}, {[strict |-> TRUE]},
                          {[outDir |-> <<".", "lib">>]},
                          {[outDir |-> <<"compiled">>]}}

TsNames == <<"tsconfig.json", "tsconfig.base.json", "tsconfig.root.json",
             "tsconfig.shared.json">>

\* A configuration object with the keys that are given.
Config(compilerOptions, extends) ==
  [k \in (IF compilerOptions = {} THEN {} ELSE {"compilerOptions"})
           \cup (IF extends = {} THEN {} ELSE {"extends"}) |->
     IF k = "compilerOptions" THEN CHOOSE c \in compilerOptions : TRUE
                              ELSE CHOOSE e \in extends : TRUE]

\* tsconfig.json extending tsconfig.base.json extending ..., n files long,
\* with the given "compilerOptions" values.
Chain(n, cos) ==
  [f \in {<<TsNames[i]>> : i \in 1..n} |->
     LET i == CHOOSE j \in 1..n : <<TsNames[j]>> = f
     IN  Config(cos[i], IF i < n THEN {<<".", TsNames[i + 1]>>} ELSE {})]

\* Path::exists and Path::is_dir under the project root
PathKind(path) ==
  LET r == Resolve(path)
  IN  IF r = <<>> THEN "dir"
      ELSE IF Len(r) = 1 /\ r[1] \in DOMAIN project_fs
        THEN project_fs[r[1]].kind
        ELSE "absent"

PathExists(path) == PathKind(path) # "absent"

\* Path::file_name: the last component, none for a path that ends in "..";
\* the project root has the name of its directory.
FileName(path) ==
  IF path = <<>> THEN project_name
  ELSE IF path[Len(path)] = ".." THEN ""
  ELSE path[Len(path)]

\* contains_js_files, lines 1108-1119
contains_js_files(d) ==
  \E f \in project_fs[d].files : f[2] \in {"js", "mjs", "cjs"}

\* lines 1091-1097: merged = base_obj.clone(); every key of the current
\* object is inserted over it.
Merge(base, current) ==
  [k \in DOMAIN base \cup DOMAIN current |->
     IF k \in DOMAIN current THEN current[k] ELSE base[k]]

RECURSIVE read_tsconfig(_)
\* read_tsconfig, lines 1059-1105
read_tsconfig(tsconfig_path) ==
  LET config == tsfiles[tsconfig_path]
  IN  IF "extends" \notin DOMAIN config THEN config
      ELSE LET extends == config["extends"]
               base_path == Resolve(Parent(tsconfig_path) \o extends)
           IN  IF extends[1] \notin {".", ".."} THEN config
               ELSE IF base_path \notin DOMAIN tsfiles THEN config
               ELSE Merge(read_tsconfig(base_path), config)

\* tsconfig["compilerOptions"]["outDir"].as_str()
OutDirOf(config) ==
  IF "compilerOptions" \in DOMAIN config
       /\ "outDir" \in DOMAIN config["compilerOptions"]
    THEN {config["compilerOptions"]["outDir"]}
    ELSE {}

\* lines 1015-1027: the parent of main, if it has one of the four names and
\* exists
MainParent ==
  {Parent(main) : main \in
     {mp \in manifest_main : /\ FileName(Parent(mp)) \in Range(CommonDirs)
                             /\ PathExists(Parent(mp))}}

\* lines 1030-1041: the outDir of the merged configuration, if it exists
ExistingOutDir ==
  IF <<"tsconfig.json">> \in DOMAIN tsfiles
    THEN {d \in OutDirOf(read_tsconfig(<<"tsconfig.json">>)) : PathExists(d)}
    ELSE {}

\* lines 1044-1052: the indices of the common directories that qualify
QualifyingDirs ==
  {i \in 1..Len(CommonDirs) :
      /\ project_fs[CommonDirs[i]].kind = "dir"
      /\ \/ contains_js_files(CommonDirs[i])
         \/ <<"package", "json">> \in project_fs[CommonDirs[i]].files}

\* determine_source_directory, lines 1013-1056
DetermineSourceDirectory ==
  /\ sel_pc = "call"
  /\ IF MainParent # {}
       THEN /\ source_dir' = CHOOSE p \in MainParent : TRUE
            /\ matched_rule' = "main"
     ELSE IF ExistingOutDir # {}
       THEN /\ source_dir' = CHOOSE d \in ExistingOutDir : TRUE
            /\ matched_rule' = "outDir"
     ELSE IF QualifyingDirs # {}
       THEN /\ source_dir' =
                 <<CommonDirs[CHOOSE i \in QualifyingDirs :
                                 \A j \in QualifyingDirs : i <= j]>>
            /\ matched_rule' = "common"
     ELSE /\ source_dir' = <<>>
          /\ matched_rule' = "root"
  /\ sel_pc' = "done"
  /\ UNCHANGED <<sel_frame, manifest_main, project_fs, tsfiles>>

\* Any project: any value of main, any entries under the four names and one
\* other, with or without a chain of configuration files.
InitSel ==
  /\ LauncherIdle
  /\ EntryIdle
  /\ BundleIdle
  /\ RunIdle
  /\ OutIdle
  /\ LateIdle
  /\ manifest_main \in MainValues
  /\ project_fs \in ProjectTrees
  /\ \E n \in 0..MaxChain :
        \E cos \in [1..n -> CompilerOptionsValues] : tsfiles = Chain(n, cos)
  /\ source_dir = <<>>
  /\ matched_rule = "none"
  /\ sel_pc = "call"

NextSel == DetermineSourceDirectory

SpecSel == InitSel /\ [][NextSel]_vars

\* The rule the four-rule order prescribes for the project at hand.
FirstMatchingRule ==
  IF \E mp \in manifest_main : /\ FileName(Parent(mp)) \in Range(CommonDirs)
                               /\ PathExists(Parent(mp))
    THEN "main"
  ELSE IF /\ <<"tsconfig.json">> \in DOMAIN tsfiles
          /\ \E d \in OutDirOf(read_tsconfig(<<"tsconfig.json">>)) :
                PathExists(d)
    THEN "outDir"
  ELSE IF \E d \in Range(CommonDirs) :
             /\ project_fs[d].kind = "dir"
             /\ \E f \in project_fs[d].files :
                   f[2] \in {"js", "mjs", "cjs"} \/ f = <<"package", "json">>
    THEN "common"
  ELSE "root"

\* C18: determine_source_directory returns what the first matching of its
\* four rules gives (parent of main, tsconfig outDir, first qualifying common
\* directory, project root), and the result is always the project root or an
\* existing directory.  Violated: rules 1 and 2 test exists(), which a regular
\* file named dist, or an outDir naming a file, passes.
C18_FirstRuleAndResultIsDirectory ==
  sel_pc = "done" =>
    /\ matched_rule = FirstMatchingRule
    /\ \/ Resolve(source_dir) = <<>>
       \/ PathKind(source_dir) = "dir"

\* The part of C18 the code does satisfy: the rules are tried in order.
C18_RulesInOrder ==
  sel_pc = "done" => matched_rule = FirstMatchingRule

RECURSIVE NearestOutDir(_)
\* The outDir of the nearest configuration in the extends chain that names
\* one, {} if none does.
NearestOutDir(tsconfig_path) ==
  LET config == tsfiles[tsconfig_path]
  IN  IF OutDirOf(config) # {} THEN OutDirOf(config)
      ELSE IF "extends" \notin DOMAIN config THEN {}
      ELSE LET base_path == Resolve(Parent(tsconfig_path) \o config["extends"])
           IN  IF config["extends"][1] \in {".", ".."}
                    /\ base_path \in DOMAIN tsfiles
                 THEN NearestOutDir(base_path)
                 ELSE {}

\* C19: the merged configuration's outDir is the outDir of the nearest
\* configuration in the extends chain that names one, and when rule 1 does not
\* match and that directory exists, rule 2 selects it.  Violated: an extending
\* configuration with its own compilerOptions object hides the base's outDir.
C19_NearestOutDirSelected ==
  (sel_pc = "done" /\ <<"tsconfig.json">> \in DOMAIN tsfiles) =>
    /\ OutDirOf(read_tsconfig(<<"tsconfig.json">>))
         = NearestOutDir(<<"tsconfig.json">>)
    /\ \A d \in NearestOutDir(<<"tsconfig.json">>) :
          (MainParent = {} /\ PathExists(d)) =>
             (matched_rule = "outDir" /\ source_dir = d)

(***************************************************************************)
(* The resolver on long chains: the loops of lines 764-772 and 776-784 of  *)
(* bundler.rs over a dependency chain that reaches the depth ceiling.      *)
(***************************************************************************)

\* The longest chain of packages, each a production dependency of the one
\* before it.
MaxDeep == 22

ChainTable == <<"p01", "p02", "p03", "p04", "p05", "p06", "p07", "p08",
                "p09", "p10", "p11", "p12", "p13", "p14", "p15", "p16",
                "p17", "p18", "p19", "p20", "p21", "p22", "p23", "p24",
                "p25", "p26">>

\* The i-th package of the chain.
ChainPkg(i) == <<ChainTable[i]>>

ChainSet(n) == {ChainPkg(i) : i \in 1..n}

\* The packages of a chain of n with one more edge to the j-th: j = n + 1
\* is a package outside the chain.
ChainPackages(n, j) == ChainSet(IF j > n THEN j ELSE n)

\* The manifests of a chain of n packages with one more edge from the first
\* package to the j-th, in the given section (j = 0: no such edge).
ChainManifests(n, j, section) ==
  [p \in ChainPackages(n, j) |->
     LET i == CHOOSE k \in 1..(n + 1) : ChainPkg(k) = p
         next == IF i < n THEN {ChainPkg(i + 1)} ELSE {}
         more == IF i = 1 /\ j # 0 THEN {ChainPkg(j)} ELSE {}
     IN  [dependencies |-> IF section = "dependencies" THEN next \cup more
                                                        ELSE next,
          peer |-> IF section = "peer" THEN more ELSE {}]]

\* A project that depends on the first package of a chain; the package the
\* extra edge leads to is installed or not.
InitChain ==
  /\ LauncherIdle
  /\ EntryIdle
  /\ RunIdle
  /\ OutIdle
  /\ SelIdle
  /\ LateIdle
  /\ pnpm \in BOOLEAN
  /\ \E n \in 1..MaxDeep, j \in 0..(MaxDeep + 1), section \in Sections,
        installed \in BOOLEAN :
        /\ j = 0 \/ (2 <= j /\ j <= n + 1)
        /\ node_modules = [p \in ChainPackages(n, j) |->
                             IF j # 0 /\ p = ChainPkg(j) /\ ~installed
                               THEN "absent" ELSE "dir"]
        /\ manifests = ChainManifests(n, j, section)
        /\ expansions = [p \in ChainPackages(n, j) |-> 0]
  /\ packages_to_bundle = {ChainPkg(1)}
  /\ seeds_left = packages_to_bundle
  /\ resolved = {}
  /\ stack = <<>>
  /\ to_copy = {}
  /\ zip = <<>>
  /\ warnings = {}
  /\ bundle_pc = "resolve"

\* The resolver's loops up to the first archive entry.
NextResolve == ResolveSeed \/ ResolveDep \/ AddDirectory

SpecResolve == InitChain /\ [][NextResolve]_vars

\* The edges of the dependency graph that leave package n: the production
\* dependencies of its manifest, and the peer and optional ones that are
\* installed.
Successors(n) ==
  IF node_modules[n] = "absent" THEN {}
  ELSE manifests[n].dependencies
         \cup {d \in manifests[n].peer :
                   node_modules[d] \notin {"absent", "dangling"}}

RECURSIVE ReachableFrom(_)
ReachableFrom(set) ==
  LET next == set \cup UNION {Successors(n) : n \in set}
  IN  IF next = set THEN set ELSE ReachableFrom(next)

\* The transitive closure from the seed names.
Closure == ReachableFrom(packages_to_bundle)

ChainIndex(p) == CHOOSE k \in 1..Len(ChainTable) : ChainPkg(k) = p

RECURSIVE InTableOrder(_)
\* The names of a set, in the order of the table.
InTableOrder(set) ==
  IF set = {} THEN <<>>
  ELSE LET first == CHOOSE p \in set :
                       \A q \in set : ChainIndex(p) <= ChainIndex(q)
       IN  <<first>> \o InTableOrder(set \ {first})

RECURSIVE VisitInOrder(_, _, _)
\* The resolved set after the calls on the names of todo, one after the
\* other at the given depth, when every manifest's keys are visited in the
\* order of the table.
VisitInOrder(todo, depth, visited) ==
  IF todo = <<>> THEN visited
  ELSE LET n == Head(todo)
           after ==
             IF depth > DepthCeiling \/ n \in visited THEN visited
             ELSE IF node_modules[n] = "absent" THEN visited \cup {n}
             ELSE VisitInOrder(
                    InTableOrder(manifests[n].dependencies)
                      \o InTableOrder({d \in manifests[n].peer :
                                          node_modules[d] \notin {"absent", "dangling"}}),
                    depth + 1, visited \cup {n})
       IN  VisitInOrder(Tail(todo), depth, after)

\* C28: the resolved set is the same for every order in which the seed names
\* and the names of each manifest are visited; it is then the set that the
\* order of the table gives.  Violated by a chain of 22 packages whose first
\* package also depends on the 21st: visited along the chain, the 21st is
\* marked resolved at depth 20 and the 22nd is never added; visited from the
\* first package, the 22nd is added.
C28_OrderIndependent ==
  bundle_pc # "resolve" =>
     resolved = VisitInOrder(InTableOrder(packages_to_bundle), 0, {})

(***************************************************************************)
(* extract_package_name_from_pnpm, bundler.rs lines 617-639.  A string is  *)
(* the sequence of its characters.                                         *)
(***************************************************************************)

\* The longest directory name of the content store.
MaxNameLen == 7

\* The characters of a directory name.
Chars == {"@", "+", "a", "1"}

StoreNames == UNION {[1..n -> Chars] : n \in 0..MaxNameLen}

\* str::starts_with(char)
starts_with(s, c) == Len(s) > 0 /\ s[1] = c

\* str::find(char): {} for None, else the position, counted from 0
find(s, c) ==
  {i - 1 : i \in {j \in 1..Len(s) : s[j] = c /\ \A k \in 1..(j - 1) : s[k] # c}}

\* str::rfind that returns the first position instead of the last.
rfind_First(s, c) ==
  {i - 1 : i \in {j \in 1..Len(s) : s[j] = c /\ \A k \in 1..(j - 1) : s[k] # c}}

\* str::rfind(char): {} for None, else the position, counted from 0
rfind(s, c) ==
  {i - 1 : i \in {j \in 1..Len(s) :
                     s[j] = c /\ \A k \in (j + 1)..Len(s) : s[k] # c}}

\* str::replace(from, to), both one character long
replace(s, from, to) == [i \in 1..Len(s) |-> IF s[i] = from THEN to ELSE s[i]]

\* &s[..at_pos]
prefix(s, at_pos) == SubSeq(s, 1, at_pos)

\* extract_package_name_from_pnpm: the Option returned, as a set
extract_package_name_from_pnpm(name) ==
  IF starts_with(name, "@")
    THEN IF \E at_pos \in rfind(name, "@") : at_pos > 0
           THEN {replace(prefix(name, at_pos), "+", "/") :
                   at_pos \in rfind(name, "@")}
           ELSE {replace(name, "+", "/")}
    ELSE IF find(name, "@") # {}
           THEN {prefix(name, at_pos) : at_pos \in find(name, "@")}
           ELSE {name}

ExtractPackageName ==
  /\ parse_pc = "call"
  /\ extracted' = extract_package_name_from_pnpm(pnpm_name)
  /\ parse_pc' = "done"
  /\ UNCHANGED <<parse_frame, pnpm_name>>

\* The function is called on any directory name.
InitParse ==
  /\ LauncherIdle
  /\ EntryIdle
  /\ BundleIdle
  /\ RunIdle
  /\ OutIdle
  /\ SelIdle
  /\ FindIdle
  /\ TsIdle
  /\ ArchIdle
  /\ pnpm_name \in StoreNames
  /\ extracted = {}
  /\ parse_pc = "call"

NextParse == ExtractPackageName

SpecParse == InitParse /\ [][NextParse]_vars

\* The substring before the last occurrence of c, and before the first;
\* the whole string when c does not occur.
BeforeLast(s, c) ==
  IF \E i \in 1..Len(s) : s[i] = c
    THEN SubSeq(s, 1, (CHOOSE i \in 1..Len(s) :
                         s[i] = c /\ \A k \in (i + 1)..Len(s) : s[k] # c) - 1)
    ELSE s

BeforeFirst(s, c) ==
  IF \E i \in 1..Len(s) : s[i] = c
    THEN SubSeq(s, 1, (CHOOSE i \in 1..Len(s) :
                         s[i] = c /\ \A k \in 1..(i - 1) : s[k] # c) - 1)
    ELSE s

\* C23 as stated: a name that starts with '@' gives the substring before its
\* last '@', with '+' rewritten.  Violated by "@a+a", a scoped name without
\* a version: its last '@' is its first character, and the function returns
\* "@a/a", not the empty string.
C23_MappingAsStated ==
  parse_pc = "done" =>
     extracted = {IF starts_with(pnpm_name, "@")
                    THEN replace(BeforeLast(pnpm_name, "@"), "+", "/")
                    ELSE BeforeFirst(pnpm_name, "@")}

\* The names a registry accepts, within the length at hand: NAME and
\* @SCOPE/NAME, and the versions, which may carry '+' and never '@'.
NameParts == UNION {[1..n -> {"a", "1"}] : n \in 1..2}

PackageNames ==
  NameParts \cup {<<"@">> \o sc \o <<"/">> \o n : sc \in NameParts, n \in NameParts}

Versions == UNION {[1..n -> {"1", "a", "+"}] : n \in 1..2}

\* The directory name of the content store for a package and a version.
StoreNameOf(name, version) == replace(name, "/", "+") \o <<"@">> \o version

C23_Mapping ==
  parse_pc = "done" =>
     extracted =
       {IF starts_with(pnpm_name, "@")
          THEN IF \E i \in 2..Len(pnpm_name) : pnpm_name[i] = "@"
                 THEN replace(BeforeLast(pnpm_name, "@"), "+", "/")
                 ELSE replace(pnpm_name, "+", "/")
          ELSE BeforeFirst(pnpm_name, "@")}

C23_RoundTrip ==
  parse_pc = "done" =>
     \A name \in PackageNames, version \in Versions :
        pnpm_name = StoreNameOf(name, version) => extracted = {name}

\* C23: a directory name that starts with '@' and has a later '@' gives the
\* substring before its last '@' with '+' rewritten to '/'; one that starts
\* with '@' and has no other '@' is returned whole, with '+' rewritten; any
\* other name gives the substring before its first '@', or itself when it
\* has none.  Parsing the directory name built from a package name and a
\* version returns the package name.
C23_ParsesStoreNames == C23_Mapping /\ C23_RoundTrip

\* The directory name "@a+a@1" was parsed to "@a/a".
C23_Witness ==
  /\ parse_pc = "done"
  /\ pnpm_name = <<"@", "a", "+", "a", "@", "1">>
  /\ extracted = {<<"@", "a", "/", "a">>}

(***************************************************************************)
(* find_and_bundle_dependencies, bundler.rs lines 171-332, and the seed    *)
(* sets of the four bundling functions it calls.                           *)
(***************************************************************************)

\* The most parent directories between the project and the filesystem root,
\* the root included.
MaxAncestors == 2

\* The dependency names of the project's manifest, one per section.
SectionNames == [dependencies |-> {"a"}, peerDependencies |-> {"p"},
                 optionalDependencies |-> {"o"}, devDependencies |-> {"d"}]

ProjectManifests ==
  [dependencies : SUBSET SectionNames.dependencies,
   peerDependencies : SUBSET SectionNames.peerDependencies,
   optionalDependencies : SUBSET SectionNames.optionalDependencies,
   devDependencies : SUBSET SectionNames.devDependencies]

\* The dependencies of a workspace root's own manifest.
RootDependencies == {"w"}

\* detect_package_manager, lines 343-378: .pnpm or a link into a .pnpm
\* directory makes the manager Pnpm.
OwnDirs ==
  {o \in [node_modules : BOOLEAN,
          manager : {"Pnpm", "Yarn", "Npm", "Unknown"},
          pnpm_dir : BOOLEAN,
          parent_links : BOOLEAN] :
      /\ (o.pnpm_dir \/ o.parent_links) => o.manager = "Pnpm"
      /\ ~o.node_modules =>
            (o.manager = "Unknown" /\ ~o.pnpm_dir /\ ~o.parent_links)}

\* The test of line 278 left out: any parent with node_modules and a
\* package.json is taken.
is_workspace_Always(parent) == TRUE

\* lines 263-276: the manifest's workspaces key, or pnpm-workspace.yaml
is_workspace(parent) == parent.workspaces \/ parent.yaml

\* lines 259 and 278
Qualifies(parent) ==
  parent.node_modules /\ parent.package_json /\ is_workspace(parent)

AncestorDirs ==
  {d \in [node_modules : BOOLEAN, package_json : BOOLEAN, workspaces : BOOLEAN,
          yaml : BOOLEAN, pnpm : BOOLEAN] :
      /\ d.workspaces => d.package_json
      /\ d.workspaces => ~d.yaml   \* line 274: the file is not looked at
      /\ d.pnpm => Qualifies(d)}

\* bundle_node_modules_comprehensive, lines 714-733;
\* bundle_workspace_dependencies, lines 834-856;
\* bundle_pnpm_workspace_dependencies, lines 917-939
AllSections ==
  project_manifest.dependencies \cup project_manifest.peerDependencies
    \cup project_manifest.optionalDependencies

\* bundle_pnpm_dependencies, lines 401-416: "dependencies" alone
DependenciesOnly == project_manifest.dependencies

\* Strategy 1, lines 181-250: node_modules in the project directory.
Strategy1 ==
  /\ find_pc = "start"
  /\ IF own.node_modules /\ ~(own.manager = "Pnpm" /\ own.parent_links)
       THEN /\ IF own.manager = "Pnpm"
                 THEN IF own.pnpm_dir
                        THEN /\ called' = "bundle_pnpm_dependencies"
                             /\ seeds' = DependenciesOnly
                        ELSE /\ called' = "add_dir_to_zip_no_follow"
                             /\ seeds' = {}
                 ELSE /\ called' = "bundle_node_modules_comprehensive"
                      /\ seeds' = AllSections
            /\ install_root' = 0
            /\ dependencies_found' = TRUE
            /\ find_pc' = "done"
            /\ UNCHANGED current_path
       ELSE /\ current_path' = 1
            /\ find_pc' = "walk"
            /\ UNCHANGED <<called, install_root, seeds, dependencies_found>>
  /\ UNCHANGED <<find_frame, own, ancestors, project_manifest>>

\* One turn of the loop of lines 254-325.
WalkStep ==
  /\ find_pc = "walk"
  /\ current_path # 0
  /\ LET parent_path == ancestors[current_path]
     IN  IF Qualifies(parent_path)
           THEN /\ called' = IF parent_path.pnpm
                               THEN "bundle_pnpm_workspace_dependencies"
                               ELSE "bundle_workspace_dependencies"
                /\ seeds' = AllSections
                /\ install_root' = current_path
                /\ dependencies_found' = TRUE
                /\ find_pc' = "done"
                /\ UNCHANGED current_path
           ELSE /\ current_path' = IF current_path < Len(ancestors)
                                     THEN current_path + 1 ELSE 0
                /\ UNCHANGED <<called, install_root, seeds,
                               dependencies_found, find_pc>>
  /\ UNCHANGED <<find_frame, own, ancestors, project_manifest>>

\* lines 327-331: the loop ended without a workspace root.
WalkEnd ==
  /\ find_pc = "walk"
  /\ current_path = 0
  /\ dependencies_found' = FALSE
  /\ find_pc' = "done"
  /\ UNCHANGED <<find_frame, own, ancestors, project_manifest, current_path,
                 called, install_root, seeds>>

\* Any project directory below any parent directories.
InitFind ==
  /\ LauncherIdle
  /\ EntryIdle
  /\ BundleIdle
  /\ RunIdle
  /\ OutIdle
  /\ SelIdle
  /\ TsIdle
  /\ ArchIdle
  /\ ParseIdle
  /\ own \in OwnDirs
  /\ ancestors \in UNION {[1..n -> AncestorDirs] : n \in 1..MaxAncestors}
  /\ project_manifest \in ProjectManifests
  /\ current_path = 0
  /\ called = "none"
  /\ install_root = 0
  /\ seeds = {}
  /\ dependencies_found = FALSE
  /\ find_pc = "start"

NextFind == Strategy1 \/ WalkStep \/ WalkEnd

SpecFind == InitFind /\ [][NextFind]_vars

FairSpecFind == SpecFind /\ WF_vars(NextFind)

\* C22: in every layout the seed set is the project manifest's dependencies
\* together with its peerDependencies and optionalDependencies, and holds no
\* name that is in devDependencies alone.  Violated by a project with its
\* own node_modules/.pnpm: bundle_pnpm_dependencies reads "dependencies"
\* only.
C22_SeedsAreAllProductionSections ==
  (find_pc = "done" /\ dependencies_found) =>
     /\ seeds = project_manifest.dependencies
                  \cup project_manifest.peerDependencies
                  \cup project_manifest.optionalDependencies
     /\ seeds \cap project_manifest.devDependencies = {}

\* The part of C22 that holds: no seed set has a name of devDependencies
\* alone, and the three functions other than bundle_pnpm_dependencies read
\* the three sections.
C22_NoDevelopmentSeeds ==
  (find_pc = "done" /\ dependencies_found) =>
     /\ seeds \cap project_manifest.devDependencies = {}
     /\ called \in {"bundle_node_modules_comprehensive",
                    "bundle_workspace_dependencies",
                    "bundle_pnpm_workspace_dependencies"} =>
           seeds = project_manifest.dependencies
                     \cup project_manifest.peerDependencies
                     \cup project_manifest.optionalDependencies

\* The parent directories that have node_modules, a package.json and a
\* workspace marker.
WorkspaceRoots ==
  {k \in 1..Len(ancestors) :
      /\ ancestors[k].node_modules
      /\ ancestors[k].package_json
      /\ ancestors[k].workspaces \/ ancestors[k].yaml}

C26_NearestWorkspaceRoot ==
  (find_pc = "done" /\ ~own.node_modules) =>
     IF WorkspaceRoots # {}
       THEN /\ dependencies_found
            /\ install_root \in WorkspaceRoots
            /\ \A k \in WorkspaceRoots : install_root <= k
            /\ seeds = project_manifest.dependencies
                         \cup project_manifest.peerDependencies
                         \cup project_manifest.optionalDependencies
            /\ seeds \cap RootDependencies = {}
       ELSE /\ ~dependencies_found
            /\ called = "none"
            /\ seeds = {}

\* C26: a project without node_modules of its own takes its dependencies
\* from the nearest parent directory that has node_modules, a package.json
\* and a workspace marker; the seeds are the names of the project's own
\* manifest; with no such parent nothing is bundled and the function still
\* returns Ok; the walk over the parents always ends.
C26_WorkspaceWalk ==
  /\ []C26_NearestWorkspaceRoot
  /\ <>(find_pc = "done")

\* The nearest parent is no workspace root, the one above it is.
C26_Witness ==
  /\ find_pc = "done"
  /\ ~own.node_modules
  /\ Len(ancestors) = 2
  /\ ancestors[1].node_modules /\ ancestors[1].package_json
  /\ WorkspaceRoots = {2}
  /\ install_root = 2
  /\ seeds = {"a", "p", "o"}

(***************************************************************************)
(* read_tsconfig, bundler.rs lines 1059-1105, call by call: a call on a    *)
(* file with a relative "extends" calls itself on the base file and merges *)
(* what that call returns.                                                 *)
(***************************************************************************)

\* The number of nested calls the thread's stack has room for.
MaxStack == 4

\* The values of "extends": {} when the key is missing; a file that is not
\* there; a package, which lines 1076-1079 leave alone.
ExtendsValues == {{}, {<<".", "tsconfig.json">>}, {<<".", "tsconfig.base.json">>},
                  {<<".", "missing.json">>}, {<<"pkg", "tsconfig.json">>}}

ConfigObjects ==
  {Config(co, ex) : co \in CompilerOptionsValues, ex \in ExtendsValues}

\* tsconfig.json alone, or with tsconfig.base.json next to it.
ConfigDirs ==
  [{<<"tsconfig.json">>} -> ConfigObjects]
    \cup [{<<"tsconfig.json">>, <<"tsconfig.base.json">>} -> ConfigObjects]

\* lines 1073-1088: the base file of a configuration, if "extends" is
\* relative and the file exists
BasePath(tsconfig_path) ==
  LET config == tsfiles[tsconfig_path]
  IN  IF "extends" \notin DOMAIN config THEN {}
      ELSE IF config["extends"][1] \notin {".", ".."} THEN {}
      ELSE {Resolve(Parent(tsconfig_path) \o config["extends"])}
             \cap DOMAIN tsfiles

\* What follows the end of the innermost call.
AfterReturn(rest) == IF rest = <<>> THEN "returned" ELSE "return"

\* lines 1060-1088: the innermost call reads its file; with a base file it
\* calls read_tsconfig on it (line 1090), else it returns its configuration
\* (line 1104).  A call that finds no room on the stack ends the process.
TsCall ==
  /\ ts_pc = "call"
  /\ LET n == Len(ts_stack)
         tsconfig_path == ts_stack[n]
     IN  IF BasePath(tsconfig_path) # {}
           THEN IF n >= MaxStack
                  THEN /\ ts_pc' = "overflow"
                       /\ UNCHANGED <<ts_stack, ts_value>>
                  ELSE /\ ts_stack' =
                            Append(ts_stack,
                                   CHOOSE b \in BasePath(tsconfig_path) : TRUE)
                       /\ UNCHANGED <<ts_value, ts_pc>>
           ELSE /\ ts_value' = tsfiles[tsconfig_path]
                /\ ts_stack' = SubSeq(ts_stack, 1, n - 1)
                /\ ts_pc' = AfterReturn(SubSeq(ts_stack, 1, n - 1))
  /\ UNCHANGED ts_frame

\* lines 1091-1102: the call that waited for its base merges and returns.
TsReturn ==
  /\ ts_pc = "return"
  /\ LET n == Len(ts_stack)
     IN  /\ ts_value' = Merge(ts_value, tsfiles[ts_stack[n]])
         /\ ts_stack' = SubSeq(ts_stack, 1, n - 1)
         /\ ts_pc' = AfterReturn(SubSeq(ts_stack, 1, n - 1))
  /\ UNCHANGED ts_frame

\* read_tsconfig is called on tsconfig.json (line 1032), whatever the
\* configuration files refer to.
InitTs ==
  /\ LauncherIdle
  /\ EntryIdle
  /\ BundleIdle
  /\ RunIdle
  /\ OutIdle
  /\ FindIdle
  /\ ArchIdle
  /\ ParseIdle
  /\ manifest_main = {}
  /\ project_fs = <<>>
  /\ tsfiles \in ConfigDirs
  /\ source_dir = <<>>
  /\ matched_rule = "none"
  /\ sel_pc = "idle"
  /\ ts_stack = << <<"tsconfig.json">> >>
  /\ ts_value = <<>>
  /\ ts_pc = "call"

NextTs == TsCall \/ TsReturn

SpecTs == InitTs /\ [][NextTs]_vars

\* The bundler is a single thread that keeps running.
FairSpecTs == SpecTs /\ WF_vars(NextTs)

\* C29: read_tsconfig returns for every chain of relative extends
\* references, a configuration that extends itself and two that extend each
\* other included.  Violated: on such a cycle every call makes another one,
\* until the stack is exhausted.
C29_ReadTsconfigReturns == <>(ts_pc = "returned")

RECURSIVE ChainEnds(_, _)
\* Whether the extends references from a file come to an end within n steps.
ChainEnds(tsconfig_path, n) ==
  \/ BasePath(tsconfig_path) = {}
  \/ /\ n > 0
     /\ \A b \in BasePath(tsconfig_path) : ChainEnds(b, n - 1)

\* The part of C29 that holds: without a cycle the call returns and the
\* stack is never exhausted.
C29_AcyclicReturns ==
  /\ [](ts_pc = "overflow" =>
          ~ChainEnds(<<"tsconfig.json">>, Cardinality(DOMAIN tsfiles)))
  /\ (ChainEnds(<<"tsconfig.json">>, Cardinality(DOMAIN tsfiles))
        => <>(ts_pc = "returned"))

\* The calls, taken one by one, return what the operator read_tsconfig gives.
ReadTsconfigAgrees ==
  ts_pc = "returned" => ts_value = read_tsconfig(<<"tsconfig.json">>)

(***************************************************************************)
(* bundle_project, lines 90-94: the source directory is copied under app/  *)
(* (add_dir_to_zip_excluding_node_modules, lines 1745-1796), then          *)
(* bundle_dependencies writes the root manifest (lines 119-144).           *)
(***************************************************************************)

\* The files a source directory may hold, relative to it.
SourceFiles == {<<"package.json">>, <<"index.js">>, <<"README.md">>,
                <<"lib", "a.js">>, <<"lib", "b.js">>,
                <<"node_modules", "x", "index.js">>}

RECURSIVE InSomeOrder(_)
\* The members of a set one after the other.
InSomeOrder(set) ==
  IF set = {} THEN <<>>
  ELSE LET x == CHOOSE y \in set : TRUE
       IN  <<x>> \o InSomeOrder(set \ {x})

\* line 1761: rel_path.starts_with("node_modules")
Excluded(rel_path) == rel_path # <<>> /\ rel_path[1] = "node_modules"

\* The directories WalkDir visits: the source directory itself and every
\* directory above a file.
WalkedDirs ==
  {<<>>} \cup UNION {{SubSeq(f, 1, k) : k \in 1..(Len(f) - 1)} : f \in src_files}

\* lines 1754-1793: a directory entry for every directory and a file entry
\* for every file outside node_modules
SourceEntries ==
  {[name |-> <<"app">> \o d \o <<"">>, data |-> "directory"] :
      d \in {w \in WalkedDirs : ~Excluded(w)}}
    \cup {[name |-> <<"app">> \o f, data |-> "source"] :
            f \in {g \in src_files : ~Excluded(g)}}

\* line 92: add_dir_to_zip_excluding_node_modules(&mut zip, &source_dir, "app")
AddSourceDir ==
  /\ arch_pc = "source"
  /\ app_zip' = InSomeOrder(SourceEntries)
  /\ arch_pc' = "manifest"
  /\ UNCHANGED <<arch_frame, src_files, separate_source>>

\* Whether the archive has an entry of that name.
HasEntry(name) == \E i \in 1..Len(app_zip) : app_zip[i].name = name

\* lines 119-144: with a source directory that is not the project root,
\* zip.start_file("app/package.json") and the manifest with main adjusted.
\* The zip crate is not part of the repository: start_file on a name the
\* archive has already either fails, and `?` ends the build, or adds a second
\* entry of that name.
WriteRootManifest ==
  /\ arch_pc = "manifest"
  /\ IF ~separate_source
       THEN /\ arch_pc' = "done"
            /\ UNCHANGED app_zip
     ELSE IF HasEntry(<<"app", "package.json">>)
       THEN \/ /\ arch_pc' = "failed"
               /\ UNCHANGED app_zip
            \/ /\ arch_pc' = "done"
               /\ app_zip' = Append(app_zip, [name |-> <<"app", "package.json">>,
                                              data |-> "rewritten"])
     ELSE /\ arch_pc' = "done"
          /\ app_zip' = Append(app_zip, [name |-> <<"app", "package.json">>,
                                         data |-> "rewritten"])
  /\ UNCHANGED <<arch_frame, src_files, separate_source>>

\* Any source directory; the project root has a package.json (lines 31-35).
InitArch ==
  /\ LauncherIdle
  /\ EntryIdle
  /\ BundleIdle
  /\ RunIdle
  /\ OutIdle
  /\ SelIdle
  /\ FindIdle
  /\ TsIdle
  /\ ParseIdle
  /\ src_files \in SUBSET SourceFiles
  /\ separate_source \in BOOLEAN
  /\ ~separate_source => <<"package.json">> \in src_files
  /\ app_zip = <<>>
  /\ arch_pc = "source"

NextArch == AddSourceDir \/ WriteRootManifest

SpecArch == InitArch /\ [][NextArch]_vars

\* C30: no two entries of the archive have the same path, and with a source
\* directory that is not the project root the archive is written with one
\* app/package.json entry, the rewritten root manifest.  Violated by a
\* source directory that holds a package.json of its own.
C30_NoDuplicateEntries ==
  /\ \A i, j \in 1..Len(app_zip) :
        app_zip[i].name = app_zip[j].name => i = j
  /\ (arch_pc \in {"done", "failed"} /\ separate_source) =>
        /\ arch_pc = "done"
        /\ \E i \in 1..Len(app_zip) :
              /\ app_zip[i].name = <<"app", "package.json">>
              /\ app_zip[i].data = "rewritten"

\* The part of C30 that holds: a source directory without a package.json of
\* its own gives an archive without duplicates and with the rewritten
\* manifest.
C30_NoDuplicatesWithoutOwnManifest ==
  (separate_source /\ <<"package.json">> \notin src_files) =>
     /\ arch_pc # "failed"
     /\ \A i, j \in 1..Len(app_zip) :
           app_zip[i].name = app_zip[j].name => i = j
     /\ arch_pc = "done" =>
           \E i \in 1..Len(app_zip) :
              /\ app_zip[i].name = <<"app", "package.json">>
              /\ app_zip[i].data = "rewritten"

\* C27: no process that took the fast path (sentinel seen, validation passed)
\* is at run_app or spawning the runtime while another process is inside
\* extract_application, removing or writing the per-build directory.
\* Violated: the check takes no lock and reads the sentinel, app/package.json
\* and the runtime one after the other, so it can begin on a stale sentinel
\* and end on the files a running extraction has just written.
C27_NoRunDuringExtraction ==
  \A p, q \in Procs :
     (p # q /\ via[p] = "fast" /\ pc[p] \in {"run_app", "run_app_dir", "spawn"})
        => pc[q] \notin {"remove", "mkdir", "decompress", "entries"}

====
